---- MODULE Spec2Model ----
(***************************************************************************)
(* A model of the pluggable persistence and caching abstraction of         *)
(* onlyoffice-integration-adapters: the cache facade (cache/cache.go) over *)
(* its two gocache stores, the storage variants (storage/memory.go, the    *)
(* mongo store, the empty store), and the selector with the configuration  *)
(* validation that precedes it.                                            *)
(*                                                                         *)
(* The facades are thin: each operation is one call into a third-party     *)
(* driver.  The drivers are modelled at the boundary the facade uses, by   *)
(* what the call made does there: the msgpack marshaler and its decode     *)
(* into an untyped target, freecache's whole-second expiry, go-redis' SET  *)
(* with a duration, MongoDB's skip/limit and session binding.              *)
(*                                                                         *)
(* Each part of the program has its own specification (SpecCache, ...);    *)
(* the variables of the other parts stay as Init leaves them.              *)
(***************************************************************************)
EXTENDS Integers, Sequences, FiniteSets, TLC

VARIABLES
    \* ---- cache facade (cache/cache.go: CustomCache) --------------------
    c_name,       \* CustomCache.name: "Freecache" or "Redis"
    c_store,      \* CustomCache.store: key -> None or [val, expireAt]
    c_zeroTTL,    \* whether the gocache build replaces a zero call-site
                  \* expiration by the store's default (fixed per build)
    now,          \* wall clock, in units of 1/UnitsPerSecond second
    c_last,       \* the last facade call and what it returned
    c_lastPut,    \* history: key -> None or the arguments of the latest Put
    c_justPut,    \* history: the key of the Put that was the previous step
    c_over,       \* history: that Put met an entry the cache still served
    c_deleted,    \* history: keys deleted and not put again since
    \* ---- storage (storage/storage.go: RefinedStore) --------------------
    s_kind,       \* the variant behind the handle: "memory", "mongo", "empty"
    m_store,      \* memoryStore.store: <<prefix, key>> -> None or a record
    g_coll,       \* the mongo collections: table -> documents, oldest first
    g_cursor,     \* the cursor of the latest mongo List: "none" (Find gave
                  \* none), "closed" or "open"
    g_options,    \* mongoStore.options, which every Init adds to
    g_tx,         \* the driver's transaction of the latest Write, Update or
                  \* Delete: None or [inTx, committed, open], with took
                  \* (seconds the call blocked) for Delete
    s_last,       \* the last storage call and what it returned
    s_written,    \* history: coordinate -> the value of the latest Write that
                  \* returned nil there, "-" when there is none or the
                  \* record was updated, deleted or has expired since
    \* ---- startup (config, then the selectors) --------------------------
    st_pc,        \* storage: "start", "configured", "running", "fatal"
    st_raw,       \* history: the configuration as decoded, before Validate
    st_cfg,       \* the *StorageConfig BuildNewStorageConfig returned
    st_err,       \* the error BuildNewStorageConfig returned
    st_built,     \* the variant NewStorage constructed: "none", "mongo", "empty"
    st_handle,    \* what NewStorage returned: None or [kind, options]
    st_init,      \* the Init NewStorage ran: "none", "ok", "failed"
    st_served,    \* a data operation was called on the handle
    ca_pc,        \* cache: "start", "configured", "running"
    ca_raw,       \* history: the configuration as decoded, before Validate
    ca_cfg,       \* the *CacheConfig BuildNewCacheConfig returned
    ca_err,       \* the error BuildNewCacheConfig returned
    ca_handle,    \* what NewCache returned: None or [store, name, address]
    \* ---- option building (storage/storage.go) -------------------------
    o_kind,       \* the options being built: "read", "write", "delete"; "-"
    o_opts,       \* the ReadOptions, WriteOptions or DeleteOptions value
    o_steps,      \* history: the steps applied to it so far, in order
    \* ---- concurrent callers of one handle ------------------------------
    w_target,     \* what the callers call: "Write" or "Put"; "-"
    w_pc,         \* caller -> "idle", "called" (inside the facade), "done"
    w_arg,        \* caller -> the value it writes
    w_order,      \* history: the callers in the order the backend applied them
    \* ---- encryption (crypto/aes.go: aesEncryptor) -----------------------
    e_made,       \* history: None or what the latest Encrypt was given and
                  \* returned: [text, key, out]
    e_last,       \* the last Encrypt or Decrypt call and what it returned
    \* ---- function composition (functional: Pipe) ------------------------
    p_chain,      \* Pipe.chain: the handlers, in the order Next added them
    p_last        \* the last call on the pipe: [op, res, err, calls], calls
                  \* being the history of the handlers Do invoked and their inputs

c_vars == <<c_name, c_store, c_zeroTTL, c_last, c_lastPut, c_justPut, c_over,
            c_deleted>>

s_vars == <<s_kind, m_store, g_coll, g_cursor, g_options, g_tx, s_last, s_written>>

o_vars == <<o_kind, o_opts, o_steps>>

w_vars == <<w_target, w_pc, w_arg, w_order>>

\* the helpers beside the stores
p_vars == <<p_chain, p_last>>

x_vars == <<e_made, e_last, p_vars>>

b_vars == <<st_pc, st_raw, st_cfg, st_err, st_built, st_handle, st_init, st_served,
            ca_pc, ca_raw, ca_cfg, ca_err, ca_handle, o_vars, w_vars, x_vars>>

vars == <<now, c_vars, s_vars, b_vars>>

None == [none |-> TRUE]

-----------------------------------------------------------------------------
(* Bounds of the model *)

\* clock resolution: ticks per second (2: half seconds)
UnitsPerSecond == 2
\* the clock stops advancing here
MaxTime == 3
\* call-site ttls range over 0..MaxTTL clock units
MaxTTL == 2

-----------------------------------------------------------------------------
(* Go values, and the marshaler shared by both cache variants *)

Keys == {"k1", "k2"}

\* a Go value: its dynamic type and its content
GoString == [type |-> "string", data |-> 1]
GoInt == [type |-> "int", data |-> 5]
GoStruct == [type |-> "struct", data |-> 7]
GoNil == [type |-> "nil", data |-> 0]

Values == {GoString, GoInt, GoStruct}

TTLs == 0..MaxTTL

\* marshaler.Set: msgpack.Marshal(object).  An int is written in the
\* shortest form that holds it, a struct as a map of its fields.
Marshal(v) ==
    CASE v.type = "string" -> [code |-> "str", data |-> v.data]
      [] v.type \in {"int", "int8", "uint8"} ->
            IF v.data <= 127 THEN [code |-> "fixint", data |-> v.data]
                             ELSE [code |-> "uint8", data |-> v.data]
      [] v.type \in {"struct", "map"} -> [code |-> "map", data |-> v.data]
      [] OTHER -> [code |-> "nil", data |-> 0]

\* marshaler.Get with the facade's target, a pointer to an empty
\* interface{}: msgpack decodes by the wire code alone.
UnmarshalAny(w) ==
    CASE w.code = "str" -> [type |-> "string", data |-> w.data]
      [] w.code = "fixint" -> [type |-> "int8", data |-> w.data]
      [] w.code = "uint8" -> [type |-> "uint8", data |-> w.data]
      [] w.code = "map" -> [type |-> "map", data |-> w.data]
      [] OTHER -> GoNil

-----------------------------------------------------------------------------
(* Configuration and the selectors *)

\* strings the validators look into are sequences of characters
Space == {" ", "\t", "\n"}

RECURSIVE TrimLeft(_)
TrimLeft(str) ==
    IF str # <<>> /\ Head(str) \in Space THEN TrimLeft(Tail(str)) ELSE str

RECURSIVE TrimRight(_)
TrimRight(str) ==
    IF str # <<>> /\ str[Len(str)] \in Space
      THEN TrimRight(SubSeq(str, 1, Len(str) - 1)) ELSE str

\* strings.TrimSpace
TrimSpace(str) == TrimRight(TrimLeft(str))

NoError == [Parameter |-> "", Reason |-> ""]

StorageTypes == -1..3
CacheTypes == -1..3

\* what a configuration file or the environment can give for a URL, a
\* database name, an address
Texts == {<<>>, <<" ">>, <<"u">>, <<" ", "u", " ">>}

\* the validation as it would be without the two TrimSpace lines
StorageConfig_Validate_untrimmed(p) ==
    [config |-> p,
     err |-> IF p.URL = <<>>
               THEN [Parameter |-> "URL",
                     Reason |-> "MongoDB driver expects a valid url"]
               ELSE NoError]

\* StorageConfig.Validate: trims URL and DB in place, then the switch on Type
StorageConfig_Validate(p) ==
    LET q == [Type |-> p.Type, URL |-> TrimSpace(p.URL), DB |-> TrimSpace(p.DB)]
    IN  [config |-> q,
         err |-> CASE q.Type = 1 /\ q.URL = <<>> ->
                        [Parameter |-> "URL",
                         Reason |-> "MongoDB driver expects a valid url"]
                   [] q.Type # 1 /\ q.URL = <<>> ->
                        [Parameter |-> "URL",
                         Reason |-> "MongoDB driver expects a valid url"]
                   [] OTHER -> NoError]

\* CacheConfig.Validate: the switch on Type
CacheConfig_Validate(b) ==
    [config |-> b,
     err |-> CASE b.Type = 2 /\ b.Address = <<>> ->
                    [Parameter |-> "Address",
                     Reason |-> "Redis cache must have a valid address"]
               [] OTHER -> NoError]

\* NewStorage: the variant the switch on config.Storage.Type constructs
NewStorage_switch(config) ==
    CASE config.Type = 1 -> "mongo"
      [] OTHER -> "empty"

\* the switch with the default branch falling to the remote client
NewCache_remote_default(config) ==
    CASE config.Type = 1 ->
            [store |-> "memory", name |-> "Freecache", address |-> <<>>]
      [] OTHER ->
            [store |-> "redis", name |-> "Redis", address |-> config.Address]

\* NewCache: the switch on config.Cache.Type
NewCache(config) ==
    CASE config.Type = 1 ->
            [store |-> "memory", name |-> "Freecache", address |-> <<>>]
      [] config.Type = 2 ->
            [store |-> "redis", name |-> "Redis", address |-> config.Address]
      [] OTHER ->
            [store |-> "memory", name |-> "Freecache", address |-> <<>>]

\* BuildNewStorageConfig: decode the file and the environment (which may
\* fail: no configuration, an error), then return &config, config.Validate()
BuildNewStorageConfig(raw, loaded) ==
    /\ st_pc = "start"
    /\ st_pc' = "configured"
    /\ st_raw' = IF loaded THEN raw ELSE None
    /\ st_cfg' = IF loaded THEN StorageConfig_Validate(raw).config ELSE None
    /\ st_err' = IF loaded THEN StorageConfig_Validate(raw).err
                           ELSE [Parameter |-> "", Reason |-> "load failed"]
    /\ UNCHANGED <<st_built, st_handle, st_init, st_served,
                   ca_pc, ca_raw, ca_cfg, ca_err, ca_handle, now, c_vars, s_vars, o_vars, w_vars, x_vars>>

\* NewStorage as it would be if the error of Init were logged and the
\* handle returned all the same
NewStorage_returns_anyway(initOK) ==
    /\ st_pc = "configured"
    /\ st_err = NoError
    /\ LET kind == NewStorage_switch(st_cfg)
           failed == kind = "mongo" /\ ~initOK
       IN  /\ st_built' = kind
           /\ st_init' = IF failed THEN "failed" ELSE "ok"
           /\ st_pc' = "running"
           /\ st_handle' = [kind |-> kind,
                            options |-> IF kind = "mongo"
                                          THEN [Database |-> st_cfg.DB,
                                                Nodes |-> <<st_cfg.URL>>]
                                          ELSE [Database |-> <<>>, Nodes |-> <<>>]]
    /\ UNCHANGED <<st_raw, st_cfg, st_err, st_served,
                   ca_pc, ca_raw, ca_cfg, ca_err, ca_handle, now, c_vars, s_vars, o_vars, w_vars, x_vars>>

\* NewStorage, which runs when its configuration was provided without an
\* error (a constructor's error stops the application): construct the
\* variant, Init it with the database and the node, log.Fatalln on an error
NewStorage(initOK) ==
    /\ st_pc = "configured"
    /\ st_err = NoError
    /\ LET kind == NewStorage_switch(st_cfg)
           failed == kind = "mongo" /\ ~initOK
       IN  /\ st_built' = kind
           /\ st_init' = IF failed THEN "failed" ELSE "ok"
           /\ st_pc' = IF failed THEN "fatal" ELSE "running"
           /\ st_handle' = IF failed THEN None
                           ELSE [kind |-> kind,
                                 options |-> IF kind = "mongo"
                                               THEN [Database |-> st_cfg.DB,
                                                     Nodes |-> <<st_cfg.URL>>]
                                               ELSE [Database |-> <<>>, Nodes |-> <<>>]]
    /\ UNCHANGED <<st_raw, st_cfg, st_err, st_served,
                   ca_pc, ca_raw, ca_cfg, ca_err, ca_handle, now, c_vars, s_vars, o_vars, w_vars, x_vars>>

\* BuildNewCacheConfig: Size defaults to 10, then as for the storage
BuildNewCacheConfig(raw, loaded) ==
    /\ ca_pc = "start"
    /\ ca_pc' = "configured"
    /\ ca_raw' = IF loaded THEN raw ELSE None
    /\ ca_cfg' = IF loaded THEN CacheConfig_Validate(raw).config ELSE None
    /\ ca_err' = IF loaded THEN CacheConfig_Validate(raw).err
                           ELSE [Parameter |-> "", Reason |-> "load failed"]
    /\ UNCHANGED <<ca_handle, st_pc, st_raw, st_cfg, st_err, st_built, st_handle,
                   st_init, st_served, now, c_vars, s_vars, o_vars, w_vars, x_vars>>

\* NewCache, which runs when its configuration was provided without an error
ProvideCache ==
    /\ ca_pc = "configured"
    /\ ca_err = NoError
    /\ ca_pc' = "running"
    /\ ca_handle' = NewCache(ca_cfg)
    /\ UNCHANGED <<ca_raw, ca_cfg, ca_err, st_pc, st_raw, st_cfg, st_err, st_built,
                   st_handle, st_init, st_served, now, c_vars, s_vars, o_vars, w_vars, x_vars>>

\* a data operation of the service on the handle it was given: there is
\* one only once NewStorage has returned
RefinedStore_call ==
    /\ st_handle # None
    /\ st_served' = TRUE
    /\ UNCHANGED <<st_pc, st_raw, st_cfg, st_err, st_built, st_handle, st_init,
                   ca_pc, ca_raw, ca_cfg, ca_err, ca_handle, now, c_vars, s_vars, o_vars, w_vars, x_vars>>

StartupInit ==
    /\ st_pc = "start"
    /\ st_raw = None
    /\ st_cfg = None
    /\ st_err = NoError
    /\ st_built = "none"
    /\ st_handle = None
    /\ st_init = "none"
    /\ st_served = FALSE
    /\ ca_pc = "start"
    /\ ca_raw = None
    /\ ca_cfg = None
    /\ ca_err = NoError
    /\ ca_handle = None

StartupNext ==
    \/ \E type \in StorageTypes, url \in Texts, db \in Texts, loaded \in BOOLEAN :
          BuildNewStorageConfig([Type |-> type, URL |-> url, DB |-> db], loaded)
    \/ \E initOK \in BOOLEAN : NewStorage(initOK)
    \/ \E type \in CacheTypes, address \in Texts, loaded \in BOOLEAN :
          BuildNewCacheConfig([Type |-> type, Address |-> address], loaded)
    \/ ProvideCache
    \/ RefinedStore_call

-----------------------------------------------------------------------------
(* The two gocache stores behind the marshaler *)

\* newMemory: store.WithExpiration(10*time.Second), in seconds
DefaultExpirationSec == 10

\* the expiration the freecache store works with, in clock units
MemoryExpiration(d) ==
    IF d = 0 /\ c_zeroTTL THEN DefaultExpirationSec * UnitsPerSecond ELSE d

\* freecache keeps time in whole seconds
UnixSeconds(t) == t \div UnitsPerSecond

\* Put on the bounded local cache: the freecache store passes
\* int(Expiration.Seconds()) and freecache reads 0 as "no expiry"
\* (expireAt 0), otherwise expireAt = now + seconds on its second clock.
MemoryExpireAt(d) ==
    LET secs == MemoryExpiration(d) \div UnitsPerSecond
    IN  IF secs <= 0 THEN 0 ELSE UnixSeconds(now) + secs

\* Put on the distributed cache: SET key value with the duration as given;
\* a zero duration sets no expiry.  Kept in clock units.
RedisExpireAt(d) == IF d = 0 THEN 0 ELSE now + d

\* whether a stored entry is still served
Live(k) ==
    /\ c_store[k] # None
    /\ \/ c_store[k].expireAt = 0
       \/ IF c_name = "Freecache"
            THEN c_store[k].expireAt > UnixSeconds(now)
            ELSE c_store[k].expireAt > now

-----------------------------------------------------------------------------
(* The facade's operations *)

\* what can befall a call of the facade: nothing; the call of the store
\* fails (the marshaler, the connection, the store itself); the caller's
\* context is already cancelled
CacheFaults == {"none", "failed", "cancelled"}

\* whether the store call returns an error: the redis client gives up on a
\* cancelled context, the freecache store does not look at the context
CacheFails(fault) ==
    \/ fault = "failed"
    \/ fault = "cancelled" /\ c_name = "Redis"

CacheErr(fault) == IF fault = "cancelled" THEN "context canceled" ELSE "store failed"

\* CustomCache.Put: c.store.Set(ctx, key, val, store.WithExpiration(d))
CustomCache_Put(k, v, d, fault) ==
    /\ IF CacheFails(fault)
         THEN /\ c_last' = [op |-> "Put", key |-> k, val |-> v,
                            err |-> CacheErr(fault), afterPut |-> FALSE, over |-> FALSE,
                            elapsed |-> FALSE, fault |-> fault]
              /\ c_justPut' = "-"
              /\ c_over' = FALSE
              /\ UNCHANGED <<c_store, c_lastPut, c_deleted>>
         ELSE /\ c_store' = [c_store EXCEPT ![k] =
                    [val |-> Marshal(v),
                     expireAt |-> IF c_name = "Freecache" THEN MemoryExpireAt(d)
                                                          ELSE RedisExpireAt(d)]]
              /\ c_last' = [op |-> "Put", key |-> k, val |-> v, err |-> "nil",
                            afterPut |-> FALSE, over |-> FALSE, elapsed |-> FALSE, fault |-> fault]
              /\ c_lastPut' = [c_lastPut EXCEPT ![k] =
                                  [val |-> v, ttl |-> d, at |-> now]]
              /\ c_justPut' = k
              /\ c_over' = Live(k)
              /\ c_deleted' = c_deleted \ {k}
    /\ UNCHANGED <<c_name, c_zeroTTL, now, s_vars, b_vars>>

\* history: the ttl given to the latest Put of k was positive and has passed
Elapsed(k) ==
    /\ c_lastPut[k] # None
    /\ c_lastPut[k].ttl > 0
    /\ now >= c_lastPut[k].at + c_lastPut[k].ttl

\* CustomCache.Get: var result interface{}; c.store.Get(ctx, key, &result);
\* return result, time.Now(), err
CustomCache_Get(k, fault) ==
    /\ c_last' =
         CASE CacheFails(fault) ->
                [op |-> "Get", key |-> k, val |-> GoNil, err |-> CacheErr(fault),
                 afterPut |-> (c_justPut = k),
                 over |-> (c_over /\ c_justPut = k), elapsed |-> Elapsed(k),
                 fault |-> fault]
           [] ~CacheFails(fault) /\ Live(k) ->
                [op |-> "Get", key |-> k,
                 val |-> UnmarshalAny(c_store[k].val), err |-> "nil",
                 afterPut |-> (c_justPut = k),
                 over |-> (c_over /\ c_justPut = k), elapsed |-> Elapsed(k),
                 fault |-> fault]
           [] OTHER ->
                [op |-> "Get", key |-> k, val |-> GoNil,
                 err |-> "not found", afterPut |-> (c_justPut = k),
                 over |-> (c_over /\ c_justPut = k),
                 elapsed |-> Elapsed(k), fault |-> fault]
    /\ c_justPut' = "-"
    /\ c_over' = FALSE
    /\ UNCHANGED <<c_name, c_store, c_zeroTTL, now, c_lastPut, c_deleted, s_vars, b_vars>>

\* a Delete that reports as the code does and removes nothing
CustomCache_Delete_keeps(k, fault) ==
    /\ c_last' = [op |-> "Delete", key |-> k, val |-> GoNil,
                  err |-> CASE CacheFails(fault) -> CacheErr(fault)
                            [] ~CacheFails(fault) /\ c_name = "Freecache"
                                                  /\ c_store[k] = None
                                 -> "failed to delete key"
                            [] OTHER -> "nil",
                  afterPut |-> FALSE, over |-> FALSE, elapsed |-> FALSE, fault |-> fault]
    /\ c_justPut' = "-"
    /\ c_over' = FALSE
    /\ c_deleted' = IF CacheFails(fault) THEN c_deleted ELSE c_deleted \cup {k}
    /\ UNCHANGED <<c_name, c_store, c_zeroTTL, now, c_lastPut, s_vars, b_vars>>

\* CustomCache.Delete: c.store.Delete(ctx, key).  The freecache store
\* reports an error when it held no entry for the key, redis does not.
CustomCache_Delete(k, fault) ==
    /\ c_store' = IF CacheFails(fault) THEN c_store
                                       ELSE [c_store EXCEPT ![k] = None]
    /\ c_last' = [op |-> "Delete", key |-> k, val |-> GoNil,
                  err |-> CASE CacheFails(fault) -> CacheErr(fault)
                            [] ~CacheFails(fault) /\ c_name = "Freecache"
                                                  /\ c_store[k] = None
                                 -> "failed to delete key"
                            [] OTHER -> "nil",
                  afterPut |-> FALSE, over |-> FALSE, elapsed |-> FALSE, fault |-> fault]
    /\ c_justPut' = "-"
    /\ c_over' = FALSE
    /\ c_deleted' = IF CacheFails(fault) THEN c_deleted ELSE c_deleted \cup {k}
    /\ UNCHANGED <<c_name, c_zeroTTL, now, c_lastPut, s_vars, b_vars>>

CacheInit ==
    /\ \E type \in CacheTypes :
          c_name = NewCache([Type |-> type, Address |-> <<"u">>]).name
    /\ c_store = [k \in Keys |-> None]
    /\ c_zeroTTL \in BOOLEAN
    /\ c_last = [op |-> "-", key |-> "-", val |-> GoNil, err |-> "nil",
                 afterPut |-> FALSE, over |-> FALSE, elapsed |-> FALSE, fault |-> "none"]
    /\ c_lastPut = [k \in Keys |-> None]
    /\ c_justPut = "-"
    /\ c_over = FALSE
    /\ c_deleted = {}

\* the cache part at rest, for the specifications of the other parts
CacheIdle ==
    /\ c_name = NewCache([Type |-> 1, Address |-> <<>>]).name
    /\ c_store = [k \in Keys |-> None]
    /\ c_zeroTTL = FALSE
    /\ c_last = [op |-> "-", key |-> "-", val |-> GoNil, err |-> "nil",
                 afterPut |-> FALSE, over |-> FALSE, elapsed |-> FALSE, fault |-> "none"]
    /\ c_lastPut = [k \in Keys |-> None]
    /\ c_justPut = "-"
    /\ c_over = FALSE
    /\ c_deleted = {}

-----------------------------------------------------------------------------
(* Storage: coordinates, payloads, options *)

\* documents a mongo collection holds at most
MaxDocs == 2
\* ReadLimit and ReadOffset range over 0..MaxPage
MaxPage == 2
\* WriteTTL: none, or one clock unit
WriteTTLs == {0, 1}

\* one database and one table: the operations here address one table
Databases == {"d1"}
\* the databases a caller can name in ReadFrom, WriteTo and DeleteFrom
AllDatabases == {"d1", "d2"}
Tables == {"t1"}
RecordKeys == {"a", "b"}
RecordValues == {"x", "y"}
\* the keys in the order of Go's < on strings
KeyOrder == <<"a", "b">>

\* what a caller passes as payload: a *store.Record, or another value
\* with the same two fields
Payloads ==
    [record : {TRUE}, key : RecordKeys, value : RecordValues]
        \cup {[record |-> FALSE, key |-> "a", value |-> "x"]}

\* ReadOptions after the ReadOption steps were applied (storage.go: 39-56),
\* as Read is called on the in-memory variant (Key is the record's key) ...
MemReadOps ==
    [Database : Databases, Table : Tables, Key : RecordKeys, Value : {""},
     Limit : {0}, Offset : {0}, Result : {"nil", "ptr"}]

\* ... and on the document-oriented variant (Key names a field, "" none)
MongoReadOps ==
    [Database : Databases, Table : Tables, Key : {"key", ""},
     Value : RecordKeys, Limit : {0}, Offset : {0}, Result : {"nil", "ptr"}]

\* ReadOptions as List is called: with a target and any page, or without a
\* target
ListOps ==
    [Database : Databases, Table : Tables, Key : {""}, Value : {""},
     Prefix : {""}, Suffix : {""},
     Limit : 0..MaxPage, Offset : 0..MaxPage, Result : {"ptr"}]
        \cup [Database : Databases, Table : Tables, Key : {""}, Value : {""},
              Prefix : {""}, Suffix : {""},
              Limit : 0..1, Offset : 0..1, Result : {"nil"}]

\* ... and as List is called with filters: ReadPrefix, ReadSuffix, ReadKey,
\* ReadValue and either database
FilterListOps ==
    [Database : AllDatabases, Table : Tables, Key : {"", "key"}, Value : {"", "a"},
     Prefix : {"", "a"}, Suffix : {"", "b"},
     Limit : {0, 1}, Offset : {0}, Result : {"ptr"}]

\* WriteOptions (storage.go: 119-129); Expiry 0 is the zero time
MemWriteOps ==
    [Database : Databases, Table : Tables, Key : {""}, Value : {""},
     Expiry : {0}, TTL : WriteTTLs]

\* ... as Write is called on the document-oriented variant, which reads
\* the table alone ...
MongoInsertOps ==
    [Database : Databases, Table : Tables, Key : {""}, Value : {""},
     Expiry : {0}, TTL : {0}]

\* ... and as Update is called on it, with the filter {Key: Value}
MongoWriteOps ==
    [Database : Databases, Table : Tables, Key : {"key"}, Value : RecordKeys,
     Expiry : {0}, TTL : {0}]

\* DeleteOptions (storage.go: 168-172)
MemDeleteOps ==
    [Database : Databases, Table : Tables, Key : RecordKeys, Value : {""}]

MongoDeleteOps ==
    [Database : Databases, Table : Tables, Key : {"key", ""}, Value : RecordKeys]

Min(a, b) == IF a < b THEN a ELSE b

\* every order a set can be listed in
Orders(S) ==
    {q \in [1..Cardinality(S) -> S] : {q[i] : i \in 1..Cardinality(S)} = S}

\* what the storage call left behind for its caller
Returned(op, ops, fault, err, touched, out, before) ==
    [op |-> op, ops |-> ops, fault |-> fault,
     err |-> err, touched |-> touched, out |-> out, before |-> before]

Coord(database, table, key) == <<database, table, key>>

Coords == AllDatabases \X Tables \X RecordKeys

-----------------------------------------------------------------------------
(* The in-memory variant (storage/memory.go) over go-micro's memory store *)

\* the memory store's prefix: filepath.Join(database, table)
prefix(database, table) == database \o "/" \o table

Prefixes == {prefix(d, t) : d \in AllDatabases, t \in Tables}

Slots == Prefixes \X RecordKeys

\* a record is served until its expiry (0: none)
MemLive(p, k) ==
    /\ <<p, k>> \in Slots
    /\ m_store[<<p, k>>] # None
    /\ \/ m_store[<<p, k>>].expiresAt = 0
       \/ m_store[<<p, k>>].expiresAt > now

MemKeys(p) == {k \in RecordKeys : MemLive(p, k)}

\* the memory store's list: unordered without limit and offset, otherwise
\* sorted and cut as allKeys[offset:min(limit, len(allKeys))]
MemListed(p, limit, offset) ==
    IF limit = 0 /\ offset = 0
      THEN {[panic |-> FALSE, keys |-> q] : q \in Orders(MemKeys(p))}
      ELSE LET sorted == SelectSeq(KeyOrder, LAMBDA k : k \in MemKeys(p))
               hi == Min(limit, Len(sorted))
           IN  IF offset > hi
                 THEN {[panic |-> TRUE, keys |-> <<>>]}
                 ELSE {[panic |-> FALSE, keys |-> SubSeq(sorted, offset + 1, hi)]}

\* strings.HasPrefix and strings.HasSuffix on the keys of the model
Affixes == {""} \cup RecordKeys
HasPrefix(k, p) == \E rest \in Affixes : k = p \o rest
HasSuffix(k, sfx) == \E rest \in Affixes : k = rest \o sfx

\* a filter that forgets the suffix
Filtered_by_prefix_only(keys, p, sfx) ==
    SelectSeq(keys, LAMBDA k : p = "" \/ HasPrefix(k, p))

\* the memory store's List filters the keys it cut, by the prefix when one
\* is given and then by the suffix when one is given
Filtered(keys, p, sfx) ==
    SelectSeq(keys, LAMBDA k : /\ p = "" \/ HasPrefix(k, p)
                               /\ sfx = "" \/ HasSuffix(k, sfx))

\* mapstructure.Decode(res, ops.Result)
MemDecodeErr(ops) ==
    IF ops.Result = "nil" THEN "result must be a pointer" ELSE "nil"

\* what can befall a call that meets no driver fault: nothing, or the
\* caller's context is already cancelled (the in-memory and the no-op
\* variant do not look at the context)
CtxFaults == {"none", "cancelled"}

\* memoryStore.List
memoryStore_List(ops, fault) ==
    /\ s_kind = "memory"
    /\ \E res \in MemListed(prefix(ops.Database, ops.Table), ops.Limit, ops.Offset) :
          s_last' =
            IF res.panic
              THEN Returned("List", ops, fault, "panic", FALSE, <<>>,
                            Cardinality(MemKeys(prefix(ops.Database, ops.Table))))
              ELSE Returned("List", ops, fault, MemDecodeErr(ops),
                            ops.Result # "nil",
                            IF ops.Result = "nil" THEN <<>>
                            ELSE Filtered(res.keys, ops.Prefix, ops.Suffix),
                            Cardinality(MemKeys(prefix(ops.Database, ops.Table))))
    /\ UNCHANGED <<now, c_vars, b_vars, g_cursor, g_options, g_tx, s_kind, m_store, g_coll, s_written>>

\* the record the memory store hands out: the remaining time as Expiry
MemRecord(p, k) ==
    [key |-> k, value |-> m_store[<<p, k>>].value,
     expiry |-> IF m_store[<<p, k>>].expiresAt = 0 THEN 0
                ELSE m_store[<<p, k>>].expiresAt - now]

\* memoryStore.Read
memoryStore_Read(ops, fault) ==
    /\ s_kind = "memory"
    /\ LET p == prefix(ops.Database, ops.Table)
       IN  s_last' =
             IF ~MemLive(p, ops.Key)
               THEN Returned("Read", ops, fault, "not found", FALSE, <<>>, 0)
               ELSE Returned("Read", ops, fault, MemDecodeErr(ops),
                             ops.Result # "nil",
                             IF ops.Result = "nil" THEN <<>>
                                                   ELSE <<MemRecord(p, ops.Key)>>,
                             0)
    /\ UNCHANGED <<now, c_vars, b_vars, g_cursor, g_options, g_tx, s_kind, m_store, g_coll, s_written>>

\* the memory store's Write with options: the record's expiry is replaced
\* by time.Until(Expiry) when Expiry is set, then by TTL when TTL is set;
\* an expiry that is not positive never expires
MemExpiresAt(ops) ==
    LET e1 == IF ops.Expiry # 0 THEN ops.Expiry - now ELSE 0
        e2 == IF ops.TTL # 0 THEN ops.TTL ELSE e1
    IN  IF e2 > 0 THEN now + e2 ELSE 0

\* a Write that returns nil for a record and hands nothing to the store
memoryStore_write_dropped(op, payload, ops, fault) ==
    /\ s_kind = "memory"
    /\ s_last' = Returned(op, ops, fault,
                          IF payload.record THEN "nil" ELSE "_errInvalidResultOption",
                          FALSE, <<>>, 0)
    /\ s_written' = IF payload.record
                      THEN [s_written EXCEPT
                              ![Coord(ops.Database, ops.Table, payload.key)] = payload.value]
                      ELSE s_written
    /\ UNCHANGED <<now, c_vars, b_vars, g_cursor, g_options, g_tx, s_kind, g_coll, m_store>>

\* memoryStore.Write, which memoryStore.Update calls
memoryStore_write(op, payload, ops, fault) ==
    /\ s_kind = "memory"
    /\ IF ~payload.record
         THEN /\ s_last' = Returned(op, ops, fault,
                                    "_errInvalidResultOption", FALSE, <<>>, 0)
              /\ UNCHANGED <<m_store, s_written>>
         ELSE /\ m_store' = [m_store EXCEPT
                    ![<<prefix(ops.Database, ops.Table), payload.key>>] =
                        [value |-> payload.value, expiresAt |-> MemExpiresAt(ops)]]
              /\ s_last' = Returned(op, ops, fault, "nil", FALSE, <<>>, 0)
              /\ s_written' = [s_written EXCEPT
                    ![Coord(ops.Database, ops.Table, payload.key)] =
                        payload.value]
    /\ UNCHANGED <<now, c_vars, b_vars, g_cursor, g_options, g_tx, s_kind, g_coll>>

memoryStore_Write(payload, ops, fault) ==
    memoryStore_write("Write", payload, ops, fault)

\* an Update that merges: the stored record keeps its expiry
memoryStore_Update_merging(payload, ops, fault) ==
    /\ s_kind = "memory"
    /\ LET slot == <<prefix(ops.Database, ops.Table), payload.key>>
       IN  IF ~payload.record
             THEN /\ s_last' = Returned("Update", ops, fault,
                                        "_errInvalidResultOption", FALSE, <<>>, 0)
                  /\ UNCHANGED <<m_store, s_written>>
             ELSE /\ m_store' = [m_store EXCEPT ![slot] =
                        [value |-> payload.value,
                         expiresAt |-> IF m_store[slot] # None
                                         THEN m_store[slot].expiresAt
                                         ELSE MemExpiresAt(ops)]]
                  /\ s_last' = Returned("Update", ops, fault, "nil", FALSE, <<>>, 0)
                  /\ s_written' = s_written
    /\ UNCHANGED <<now, c_vars, b_vars, g_cursor, g_options, g_tx, s_kind, g_coll>>

\* memoryStore.Update: `return s.Write(ctx, payload, opts...)`
memoryStore_Update(payload, ops, fault) ==
    memoryStore_write("Update", payload, ops, fault)

\* memoryStore.Delete
memoryStore_Delete(ops, fault) ==
    /\ s_kind = "memory"
    /\ LET slot == <<prefix(ops.Database, ops.Table), ops.Key>>
       IN  /\ m_store' = IF slot \in Slots THEN [m_store EXCEPT ![slot] = None]
                                           ELSE m_store
           /\ s_written' = [c \in Coords |->
                  IF c = Coord(ops.Database, ops.Table, ops.Key) THEN "-"
                                                                 ELSE s_written[c]]
    /\ s_last' = Returned("Delete", ops, fault, "nil", FALSE, <<>>, 0)
    /\ UNCHANGED <<now, c_vars, b_vars, g_cursor, g_options, g_tx, s_kind, g_coll>>

MemoryNext ==
    \/ \E ops \in ListOps : memoryStore_List(ops, "none")
    \/ \E ops \in MemReadOps : memoryStore_Read(ops, "none")
    \/ \E payload \in Payloads, ops \in MemWriteOps :
          memoryStore_Write(payload, ops, "none")
    \/ \E payload \in Payloads, ops \in MemWriteOps :
          memoryStore_Update(payload, ops, "none")
    \/ \E ops \in MemDeleteOps : memoryStore_Delete(ops, "none")

-----------------------------------------------------------------------------
(* The document-oriented variant (mongoStore) over mgm and the mongo driver *)

\* the document the driver stores for a payload: its fields
Document(payload) == [key |-> payload.key, value |-> payload.value]

\* the positions of the documents a filter {Key: Value} selects
Matches(docs, ops) ==
    {i \in 1..Len(docs) : ops.Key \in {"key", "value"} /\ docs[i][ops.Key] = ops.Value}

First(S) == CHOOSE i \in S : \A j \in S : i <= j

\* a Find that sets the skip and forgets the limit
Page_unlimited(docs, offset, limit) ==
    IF offset >= Len(docs) THEN <<>> ELSE SubSeq(docs, offset + 1, Len(docs))

\* Find with SetSkip(Offset) and SetLimit(Limit): a limit of 0 is no limit
Page(docs, offset, limit) ==
    IF offset >= Len(docs) THEN <<>>
    ELSE SubSeq(docs, offset + 1,
                IF limit = 0 THEN Len(docs) ELSE Min(Len(docs), offset + limit))

\* what the driver can answer to the calls of List: the find fails, the
\* decode of the cursor fails, the close of the cursor fails
ListFaults == {"none", "find", "decode", "close"}

\* Find and FindOne are given the caller's context: they fail when the
\* driver fails and when the context is already cancelled
FindFails(fault) == fault \in {"find", "cancelled"}

FindErr(fault) == IF fault = "cancelled" THEN "context canceled" ELSE "find failed"

\* without a target List returns before the decode and the close
ListFaultsOf(ops) ==
    IF ops.Result = "nil" THEN {"none", "find"} ELSE ListFaults

\* the cursor once List has returned: Find gave none when it failed;
\* without a result target List returns before anything closes the cursor
\* Find gave; cur.All closes the cursor on every return of its own, and
\* cur.Close follows it when it returned nil
Cursor_after_List(ops, fault) ==
    CASE FindFails(fault) -> "none"
      [] ~FindFails(fault) /\ ops.Result = "nil" -> "open"
      [] OTHER -> "closed"

\* a List that drops the error of the cursor's close (a deferred Close)
mongoStore_List_close_dropped(ops, fault) ==
    /\ s_kind = "mongo"
    /\ LET docs == g_coll[ops.Table]
       IN  s_last' =
             CASE FindFails(fault) ->
                    Returned("List", ops, fault, FindErr(fault), FALSE, <<>>, Len(docs))
               [] ~FindFails(fault) /\ ops.Result = "nil" ->
                    Returned("List", ops, fault, "_errInvalidResultOption",
                             FALSE, <<>>, Len(docs))
               [] fault = "decode" /\ ops.Result # "nil" ->
                    Returned("List", ops, fault, "decode failed", FALSE, <<>>, Len(docs))
               [] OTHER ->
                    Returned("List", ops, fault, "nil", TRUE,
                             Page(docs, ops.Offset, ops.Limit), Len(docs))
    /\ g_cursor' = Cursor_after_List(ops, fault)
    /\ UNCHANGED <<now, c_vars, b_vars, g_options, g_tx, s_kind, m_store, g_coll, s_written>>

\* mongoStore.List
mongoStore_List(ops, fault) ==
    /\ s_kind = "mongo"
    /\ LET docs == g_coll[ops.Table]
       IN  s_last' =
             CASE FindFails(fault) ->
                    Returned("List", ops, fault, FindErr(fault), FALSE, <<>>, Len(docs))
               [] ~FindFails(fault) /\ ops.Result = "nil" ->
                    Returned("List", ops, fault, "_errInvalidResultOption",
                             FALSE, <<>>, Len(docs))
               [] fault = "decode" /\ ops.Result # "nil" ->
                    Returned("List", ops, fault, "decode failed", FALSE, <<>>, Len(docs))
               [] fault = "close" /\ ops.Result # "nil" ->
                    Returned("List", ops, fault, "close failed", TRUE,
                             Page(docs, ops.Offset, ops.Limit), Len(docs))
               [] OTHER ->
                    Returned("List", ops, fault, "nil", TRUE,
                             Page(docs, ops.Offset, ops.Limit), Len(docs))
    /\ g_cursor' = Cursor_after_List(ops, fault)
    /\ UNCHANGED <<now, c_vars, b_vars, g_options, g_tx, s_kind, m_store, g_coll, s_written>>

ReadFaults == {"none", "find"}

\* a Read without the check of the target: nothing to decode into, nil
mongoStore_Read_unchecked(ops, fault) ==
    /\ s_kind = "mongo"
    /\ LET docs == g_coll[ops.Table]
           hit == Matches(docs, ops)
       IN  s_last' =
             CASE ops.Result = "nil" ->
                    Returned("Read", ops, fault, "nil", FALSE, <<>>, 0)
               [] ops.Result # "nil" /\ FindFails(fault) ->
                    Returned("Read", ops, fault, FindErr(fault), FALSE, <<>>, 0)
               [] ops.Result # "nil" /\ ~FindFails(fault) /\ hit = {} ->
                    Returned("Read", ops, fault, "mongo: no documents in result",
                             FALSE, <<>>, 0)
               [] OTHER ->
                    Returned("Read", ops, fault, "nil", TRUE,
                             <<docs[First(hit)]>>, 0)
    /\ UNCHANGED <<now, c_vars, b_vars, g_cursor, g_options, g_tx, s_kind, m_store, g_coll, s_written>>

\* mongoStore.Read: FindOne, then the check of the target, then Decode,
\* which reports what FindOne met
mongoStore_Read(ops, fault) ==
    /\ s_kind = "mongo"
    /\ LET docs == g_coll[ops.Table]
           hit == Matches(docs, ops)
       IN  s_last' =
             CASE ops.Result = "nil" ->
                    Returned("Read", ops, fault, "_errInvalidResultOption",
                             FALSE, <<>>, 0)
               [] ops.Result # "nil" /\ FindFails(fault) ->
                    Returned("Read", ops, fault, FindErr(fault), FALSE, <<>>, 0)
               [] ops.Result # "nil" /\ ~FindFails(fault) /\ hit = {} ->
                    Returned("Read", ops, fault, "mongo: no documents in result",
                             FALSE, <<>>, 0)
               [] OTHER ->
                    Returned("Read", ops, fault, "nil", TRUE,
                             <<docs[First(hit)]>>, 0)
    /\ UNCHANGED <<now, c_vars, b_vars, g_cursor, g_options, g_tx, s_kind, m_store, g_coll, s_written>>

\* what the driver can answer inside mgm.TransactionWithCtx: the session
\* does not start or the document operation is refused; the document
\* operation is applied and its answer is lost (a deadline, a broken
\* connection); the commit fails
TxFaults == {"none", "refused", "lost", "commit"}

\* the document operation is given ctx, not the session context sc, so the
\* driver runs it outside the transaction: applied is visible at once.
\* With a context already cancelled the driver refuses the operation.
Applied(fault) == fault \in {"none", "lost", "commit"}

TxErr(fault) ==
    CASE fault = "none" -> "nil"
      [] fault = "refused" -> "operation failed"
      [] fault = "lost" -> "operation failed"
      [] fault = "cancelled" -> "context canceled"
      [] OTHER -> "commit failed"

\* mgm.TransactionWithCtx around the callback of Write, Update and Delete:
\* StartSession, defer EndSession, StartTransaction, then the callback. The
\* callback gives its one document operation ctx, never sc, so the
\* transaction holds no operation; it calls CommitTransaction(sc) only after
\* the operation returned nil; EndSession leaves no transaction open.
Transaction(fault) ==
    [inTx |-> 0, committed |-> (fault = "none"), open |-> FALSE]

\* mongoStore.Write: InsertOne, then CommitTransaction
mongoStore_Write(payload, ops, fault) ==
    /\ s_kind = "mongo"
    /\ Applied(fault) => Len(g_coll[ops.Table]) < MaxDocs
    /\ g_coll' = IF Applied(fault)
                   THEN [g_coll EXCEPT ![ops.Table] = Append(@, Document(payload))]
                   ELSE g_coll
    /\ s_last' = Returned("Write", ops, fault, TxErr(fault), FALSE, <<>>,
                          Len(g_coll[ops.Table]))
    /\ g_tx' = Transaction(fault)
    /\ s_written' = IF fault = "none"
                      THEN [s_written EXCEPT
                              ![Coord(ops.Database, ops.Table, payload.key)] = payload.value]
                      ELSE s_written
    /\ UNCHANGED <<now, c_vars, b_vars, g_cursor, g_options, s_kind, m_store>>

\* mongoStore.Update: UpdateOne(filter, $set payload), then CommitTransaction
mongoStore_Update(payload, ops, fault) ==
    /\ s_kind = "mongo"
    /\ LET docs == g_coll[ops.Table]
           hit == Matches(docs, ops)
           done == Applied(fault) /\ hit # {}
       IN  /\ g_coll' = IF done
                          THEN [g_coll EXCEPT ![ops.Table][First(hit)] = Document(payload)]
                          ELSE g_coll
           /\ s_written' = IF done
                             THEN [c \in Coords |->
                                     IF c[2] = ops.Table
                                        /\ c[3] \in {docs[First(hit)].key, payload.key}
                                       THEN "-" ELSE s_written[c]]
                             ELSE s_written
           /\ s_last' = Returned("Update", ops, fault, TxErr(fault), FALSE,
                                 <<>>, Len(docs))
           /\ g_tx' = Transaction(fault)
    /\ UNCHANGED <<now, c_vars, b_vars, g_cursor, g_options, s_kind, m_store>>

Remove(docs, i) == SubSeq(docs, 1, i - 1) \o SubSeq(docs, i + 1, Len(docs))

\* the deadline of Delete's own context, in seconds
DeleteTimeoutSec == 3

\* a Delete that runs under the context its caller gave it
Delete_ctx_of_caller(fault) == fault

\* `ctx, cancel := context.WithTimeout(context.Background(), 3*time.Second)`:
\* what befalls the call under the new context; a cancellation of the
\* caller's context does not reach it
Delete_ctx(fault) == IF fault = "cancelled" THEN "none" ELSE fault

\* how long Delete blocks, in seconds: the driver answers at once, or it
\* answers nothing and the deadline of Delete's context ends the call
Delete_took(own) == IF own = "lost" THEN DeleteTimeoutSec ELSE 0

\* mongoStore.Delete: DeleteOne(filter), then CommitTransaction, both under
\* a context of its own (context.Background() with a timeout of 3 s) that
\* replaces the caller's: a cancelled caller context changes nothing
mongoStore_Delete(ops, fault) ==
    /\ s_kind = "mongo"
    /\ LET docs == g_coll[ops.Table]
           hit == Matches(docs, ops)
           own == Delete_ctx(fault)
           done == Applied(own) /\ hit # {}
       IN  /\ g_coll' = IF done
                          THEN [g_coll EXCEPT ![ops.Table] = Remove(docs, First(hit))]
                          ELSE g_coll
           /\ s_written' = IF done
                             THEN [c \in Coords |->
                                     IF c[2] = ops.Table /\ c[3] = docs[First(hit)].key
                                       THEN "-" ELSE s_written[c]]
                             ELSE s_written
           /\ s_last' = Returned("Delete", ops, fault, TxErr(own), FALSE,
                                 <<>>, Len(docs))
           /\ g_tx' = [inTx |-> Transaction(own).inTx,
                       committed |-> Transaction(own).committed,
                       open |-> Transaction(own).open,
                       took |-> Delete_took(own)]
    /\ UNCHANGED <<now, c_vars, b_vars, g_cursor, g_options, s_kind, m_store>>

MongoNext ==
    \/ \E ops \in ListOps : \E fault \in ListFaultsOf(ops) : mongoStore_List(ops, fault)
    \/ \E ops \in MongoReadOps, fault \in ReadFaults : mongoStore_Read(ops, fault)
    \/ \E payload \in Payloads, ops \in MongoInsertOps, fault \in TxFaults :
          mongoStore_Write(payload, ops, fault)
    \/ \E payload \in Payloads, ops \in MongoWriteOps, fault \in TxFaults :
          mongoStore_Update(payload, ops, fault)
    \/ \E ops \in MongoDeleteOps, fault \in TxFaults : mongoStore_Delete(ops, fault)

-----------------------------------------------------------------------------
(* The no-op variant (emptyStore): every operation returns nil *)

\* an operation that answers "not found" where it finds nothing
emptyStore_call_not_found(op, ops, payload, fault) ==
    /\ s_kind = "empty"
    /\ s_last' = Returned(op, ops, fault,
                          IF op = "Read" THEN "not found" ELSE "nil", FALSE, <<>>, 0)
    /\ s_written' = IF op = "Write"
                      THEN [s_written EXCEPT
                              ![Coord(ops.Database, ops.Table, payload.key)] = payload.value]
                      ELSE s_written
    /\ UNCHANGED <<now, c_vars, b_vars, g_cursor, g_options, g_tx, s_kind, m_store, g_coll>>

emptyStore_call(op, ops, payload, fault) ==
    /\ s_kind = "empty"
    /\ s_last' = Returned(op, ops, fault, "nil", FALSE, <<>>, 0)
    /\ s_written' = IF op = "Write"
                      THEN [s_written EXCEPT
                              ![Coord(ops.Database, ops.Table, payload.key)] = payload.value]
                      ELSE s_written
    /\ UNCHANGED <<now, c_vars, b_vars, g_cursor, g_options, g_tx, s_kind, m_store, g_coll>>

emptyStore_List(ops, fault) == emptyStore_call("List", ops, None, fault)

emptyStore_Read(ops, fault) == emptyStore_call("Read", ops, None, fault)

emptyStore_Write(payload, ops, fault) == emptyStore_call("Write", ops, payload, fault)

emptyStore_Update(payload, ops, fault) ==
    emptyStore_call("Update", ops, payload, fault)

emptyStore_Delete(ops, fault) == emptyStore_call("Delete", ops, None, fault)

\* go-micro's store.Options: the fields Init's options set, at their zero values
ZeroStoreOptions == [Nodes |-> <<>>, Database |-> "", Table |-> ""]

\* what NewStorage and any later caller hand to Init: store.Database(DB) and
\* store.Nodes(URL) applied to the zero options, or no option at all
StoreInitOptions ==
    {ZeroStoreOptions} \cup
    {[ZeroStoreOptions EXCEPT !.Database = d, !.Nodes = <<"u">>] : d \in AllDatabases}

\* emptyStore.Init: the options are not kept
emptyStore_Init(opts) ==
    /\ s_kind = "empty"
    /\ s_last' = Returned("Init", opts, "none", "nil", FALSE, <<>>, 0)
    /\ UNCHANGED <<now, c_vars, b_vars, g_cursor, g_options, g_tx, s_kind, m_store, g_coll, s_written>>

\* emptyStore.Options
emptyStore_Options ==
    /\ s_kind = "empty"
    /\ s_last' = Returned("Options", None, "none", "nil", FALSE,
                          <<ZeroStoreOptions>>, 0)
    /\ UNCHANGED <<now, c_vars, b_vars, g_cursor, g_options, g_tx, s_kind, m_store, g_coll, s_written>>

\* emptyStore.String
emptyStore_String ==
    /\ s_kind = "empty"
    /\ s_last' = Returned("String", None, "none", "nil", FALSE, <<"empty">>, 0)
    /\ UNCHANGED <<now, c_vars, b_vars, g_cursor, g_options, g_tx, s_kind, m_store, g_coll, s_written>>

EmptyNext ==
    \/ \E ops \in ListOps : emptyStore_List(ops, "none")
    \/ \E ops \in MemReadOps \cup MongoReadOps : emptyStore_Read(ops, "none")
    \/ \E payload \in Payloads, ops \in MemWriteOps :
          emptyStore_Write(payload, ops, "none")
    \/ \E payload \in Payloads, ops \in MemWriteOps :
          emptyStore_Update(payload, ops, "none")
    \/ \E ops \in MemDeleteOps : emptyStore_Delete(ops, "none")
    \/ \E opts \in StoreInitOptions : emptyStore_Init(opts)
    \/ emptyStore_Options
    \/ emptyStore_String

-----------------------------------------------------------------------------
(* Init of the MongoDB variant (mongoStore.Init, mongoStore.configure) *)

\* the option lists a caller hands to Init: store.Database, store.Table and
\* store.Nodes, each given or not ("-": not given)
InitOptionLists ==
    [Database : {"-"} \cup AllDatabases, Table : {"-"} \cup Tables,
     Nodes : {"-", <<"u">>, <<"u", "v">>}]

\* for _, o := range opts { o(&s.options) }
mongoStore_apply(options, opts) ==
    [options EXCEPT
        !.Database = IF opts.Database = "-" THEN @ ELSE opts.Database,
        !.Table = IF opts.Table = "-" THEN @ ELSE opts.Table,
        !.Nodes = IF opts.Nodes = "-" THEN @ ELSE opts.Nodes]

\* mongoStore.configure: s.options.Nodes[0] is read whatever the length of
\* Nodes, and an index out of range panics; mgm.SetDefaultConfig returns the
\* error of the client it builds
mongoStore_configure(options, fault) ==
    CASE Len(options.Nodes) = 0 -> "panic"
      [] fault # "none" -> "connect failed"
      [] OTHER -> "nil"

InitFaultsOf == {"none", "lost"}

\* mongoStore.Init
mongoStore_Init(opts, fault) ==
    /\ s_kind = "mongo"
    /\ g_options' = mongoStore_apply(g_options, opts)
    /\ s_last' = Returned("Init", opts, fault,
                          mongoStore_configure(g_options', fault), FALSE, <<>>, 0)
    /\ UNCHANGED <<now, c_vars, b_vars, g_cursor, g_tx, s_kind, m_store, g_coll, s_written>>

StoreInitNext ==
    \/ \E opts \in InitOptionLists, fault \in InitFaultsOf : mongoStore_Init(opts, fault)
    \/ \E opts \in StoreInitOptions : emptyStore_Init(opts)
    \/ emptyStore_Options
    \/ emptyStore_String

-----------------------------------------------------------------------------
(* Option building (storage/storage.go): each operation starts from the zero
   options and applies the steps it was given, in order *)

\* steps one options value receives at most
MaxSteps == 3

ZeroReadOptions ==
    [Database |-> "", Table |-> "", Key |-> "", Value |-> "", Prefix |-> "",
     Suffix |-> "", Limit |-> 0, Offset |-> 0, Result |-> "nil"]

ZeroWriteOptions ==
    [Database |-> "", Table |-> "", Key |-> "", Value |-> "", Expiry |-> 0, TTL |-> 0]

ZeroDeleteOptions == [Database |-> "", Table |-> "", Key |-> "", Value |-> ""]

\* a ReadFrom that sets the database and leaves the table
ReadFrom_database_only(database, table, l) == [l EXCEPT !.Database = database]

ReadFrom(database, table, l) == [l EXCEPT !.Database = database, !.Table = table]

ReadKey(val, l) == [l EXCEPT !.Key = val]

ReadValue(val, l) == [l EXCEPT !.Value = val]

ReadPrefix(val, l) == [l EXCEPT !.Prefix = val]

ReadSuffix(val, l) == [l EXCEPT !.Suffix = val]

ReadLimit(val, l) == [l EXCEPT !.Limit = val]

ReadOffset(val, l) == [l EXCEPT !.Offset = val]

ReadResult(val, l) == [l EXCEPT !.Result = val]

WriteTo(database, table, w) == [w EXCEPT !.Database = database, !.Table = table]

WriteKey(val, w) == [w EXCEPT !.Key = val]

WriteValue(val, w) == [w EXCEPT !.Value = val]

WriteExpiry(val, w) == [w EXCEPT !.Expiry = val]

WriteTTL(val, w) == [w EXCEPT !.TTL = val]

DeleteFrom(database, table, d) == [d EXCEPT !.Database = database, !.Table = table]

DeleteKey(val, d) == [d EXCEPT !.Key = val]

DeleteValue(val, d) == [d EXCEPT !.Value = val]

\* the arguments the steps are given
OptionTexts == {"a", "b"}
OptionNumbers == {1, 2}

\* one turn of `for _, o := range opts { o(&ops) }`: the step named name,
\* called with args, leaves the options as result
Apply(kind, name, args, result) ==
    /\ o_kind = kind
    /\ Len(o_steps) < MaxSteps
    /\ o_opts' = result
    /\ o_steps' = Append(o_steps, [name |-> name, args |-> args])
    /\ UNCHANGED <<o_kind, now, c_vars, s_vars, st_pc, st_raw, st_cfg, st_err,
                   st_built, st_handle, st_init, st_served, ca_pc, ca_raw, ca_cfg,
                   ca_err, ca_handle, w_vars, x_vars>>

ReadOptionsNext ==
    \/ \E d \in AllDatabases, t \in Tables :
          Apply("read", "ReadFrom", <<d, t>>, ReadFrom(d, t, o_opts))
    \/ \E v \in OptionTexts : Apply("read", "ReadKey", <<v>>, ReadKey(v, o_opts))
    \/ \E v \in OptionTexts : Apply("read", "ReadValue", <<v>>, ReadValue(v, o_opts))
    \/ \E v \in {"p"} : Apply("read", "ReadPrefix", <<v>>, ReadPrefix(v, o_opts))
    \/ \E v \in {"s"} : Apply("read", "ReadSuffix", <<v>>, ReadSuffix(v, o_opts))
    \/ \E v \in OptionNumbers : Apply("read", "ReadLimit", <<v>>, ReadLimit(v, o_opts))
    \/ \E v \in {1} : Apply("read", "ReadOffset", <<v>>, ReadOffset(v, o_opts))
    \/ \E v \in {"ptr"} : Apply("read", "ReadResult", <<v>>, ReadResult(v, o_opts))

WriteOptionsNext ==
    \/ \E d \in AllDatabases, t \in Tables :
          Apply("write", "WriteTo", <<d, t>>, WriteTo(d, t, o_opts))
    \/ \E v \in OptionTexts : Apply("write", "WriteKey", <<v>>, WriteKey(v, o_opts))
    \/ \E v \in OptionTexts : Apply("write", "WriteValue", <<v>>, WriteValue(v, o_opts))
    \/ \E v \in OptionNumbers :
          Apply("write", "WriteExpiry", <<v>>, WriteExpiry(v, o_opts))
    \/ \E v \in OptionNumbers : Apply("write", "WriteTTL", <<v>>, WriteTTL(v, o_opts))

DeleteOptionsNext ==
    \/ \E d \in AllDatabases, t \in Tables :
          Apply("delete", "DeleteFrom", <<d, t>>, DeleteFrom(d, t, o_opts))
    \/ \E v \in OptionTexts : Apply("delete", "DeleteKey", <<v>>, DeleteKey(v, o_opts))
    \/ \E v \in OptionTexts :
          Apply("delete", "DeleteValue", <<v>>, DeleteValue(v, o_opts))

OptionsNext == ReadOptionsNext \/ WriteOptionsNext \/ DeleteOptionsNext

\* no options value is being built
OptionsIdle ==
    /\ o_kind = "-"
    /\ o_opts = None
    /\ o_steps = <<>>

\* `ops := ReadOptions{}` (or WriteOptions{}, DeleteOptions{}) on entry to
\* an operation
OptionsInit ==
    /\ o_kind \in {"read", "write", "delete"}
    /\ o_opts = CASE o_kind = "read" -> ZeroReadOptions
                  [] o_kind = "write" -> ZeroWriteOptions
                  [] OTHER -> ZeroDeleteOptions
    /\ o_steps = <<>>

-----------------------------------------------------------------------------
(* Concurrent callers of one handle: the facade takes no lock; each call
   reaches the backend, which applies one call at a time under its own lock *)

Writers == {1, 2}

\* the key the callers write, and the options they give
WrittenKey == "a"
PutKey == "k1"
WritersOps ==
    [Database |-> "d1", Table |-> "t1", Key |-> "", Value |-> "", Expiry |-> 0,
     TTL |-> 0]
WritersTTL == UnitsPerSecond

\* no caller
WritersIdle ==
    /\ w_target = "-"
    /\ w_pc = <<>>
    /\ w_arg = <<>>
    /\ w_order = <<>>

\* two callers about to write different values to the same key
WritersInit ==
    /\ w_target \in {"Write", "Put"}
    /\ w_pc = [p \in Writers |-> "idle"]
    /\ w_arg \in IF w_target = "Write" THEN [Writers -> RecordValues]
                                      ELSE [Writers -> Values]
    /\ w_arg[1] # w_arg[2]
    /\ w_order = <<>>

\* a caller enters memoryStore.Write or CustomCache.Put: the options are
\* applied and the payload is looked at, on the caller's own stack
Writer_call(p) ==
    /\ w_pc[p] = "idle"
    /\ w_pc' = [w_pc EXCEPT ![p] = "called"]
    /\ UNCHANGED <<w_target, w_arg, w_order, now, c_vars, s_vars, o_vars, st_pc,
                   st_raw, st_cfg, st_err, st_built, st_handle, st_init, st_served,
                   ca_pc, ca_raw, ca_cfg, ca_err, ca_handle, x_vars>>

\* memoryStore.Write reaches s.store.Write, which the memory store runs
\* under its lock; the call returns nil
Writer_apply_Write(p) ==
    /\ w_target = "Write"
    /\ w_pc[p] = "called"
    /\ w_pc' = [w_pc EXCEPT ![p] = "done"]
    /\ w_order' = Append(w_order, p)
    /\ m_store' = [m_store EXCEPT
          ![<<prefix(WritersOps.Database, WritersOps.Table), WrittenKey>>] =
              [value |-> w_arg[p], expiresAt |-> MemExpiresAt(WritersOps)]]
    /\ s_last' = Returned("Write", WritersOps, "none", "nil", FALSE, <<>>, 0)
    /\ s_written' = [s_written EXCEPT
          ![Coord(WritersOps.Database, WritersOps.Table, WrittenKey)] = w_arg[p]]
    /\ UNCHANGED <<w_target, w_arg, now, c_vars, s_kind, g_coll, g_cursor, g_options, g_tx,
                   o_vars, st_pc,
                   st_raw, st_cfg, st_err, st_built, st_handle, st_init, st_served,
                   ca_pc, ca_raw, ca_cfg, ca_err, ca_handle, x_vars>>

\* CustomCache.Put reaches c.store.Set, which freecache runs under its
\* segment lock and redis as one command; the call returns nil
Writer_apply_Put(p) ==
    /\ w_target = "Put"
    /\ w_pc[p] = "called"
    /\ w_pc' = [w_pc EXCEPT ![p] = "done"]
    /\ w_order' = Append(w_order, p)
    /\ c_store' = [c_store EXCEPT ![PutKey] =
          [val |-> Marshal(w_arg[p]),
           expireAt |-> IF c_name = "Freecache" THEN MemoryExpireAt(WritersTTL)
                                                ELSE RedisExpireAt(WritersTTL)]]
    /\ c_last' = [op |-> "Put", key |-> PutKey, val |-> w_arg[p], err |-> "nil",
                  afterPut |-> FALSE, over |-> FALSE, elapsed |-> FALSE,
                  fault |-> "none"]
    /\ c_lastPut' = [c_lastPut EXCEPT ![PutKey] =
                        [val |-> w_arg[p], ttl |-> WritersTTL, at |-> now]]
    /\ c_justPut' = PutKey
    /\ c_over' = Live(PutKey)
    /\ c_deleted' = c_deleted \ {PutKey}
    /\ UNCHANGED <<w_target, w_arg, c_name, c_zeroTTL, now, s_vars, o_vars, st_pc,
                   st_raw, st_cfg, st_err, st_built, st_handle, st_init, st_served,
                   ca_pc, ca_raw, ca_cfg, ca_err, ca_handle, x_vars>>

\* a reader of the same key, at any moment
WritersReadOps ==
    {o \in MemReadOps : o.Key = WrittenKey /\ o.Result = "ptr"}

WritersNext ==
    \/ \E p \in Writers : Writer_call(p)
    \/ \E p \in Writers : Writer_apply_Write(p)
    \/ \E p \in Writers : Writer_apply_Put(p)
    \/ (w_target = "Write" /\ \E ops \in WritersReadOps : memoryStore_Read(ops, "none"))
    \/ (w_target = "Put" /\ CustomCache_Get(PutKey, "none"))

-----------------------------------------------------------------------------
(* Encryption (crypto/aes.go): AES-GCM under a key cut or padded to the key
   size, the nonce in front of the sealed text, the whole in base64 *)

\* bytes of an AES key (32 in the code)
KeySize == 2

Bytes == {0, 1}
CryptoKeys == UNION {[1..n -> Bytes] : n \in 0..(KeySize + 1)}
PlainTexts == {"", "t"}
Nonces == {1, 2}

\* `validKey := make([]byte, 32); copy(validKey, key)`
validKey(key) == [i \in 1..KeySize |-> IF i <= Len(key) THEN key[i] ELSE 0]

\* gcm.Seal: the text sealed under the key and the nonce
Seal(key, nonce, text) == [key |-> key, nonce |-> nonce, text |-> text, intact |-> TRUE]

\* gcm.Open: the text when the key and the nonce are those of Seal and the
\* sealed bytes are as Seal made them, else a nil plaintext and an error
Open(key, nonce, sealed) ==
    IF sealed.intact /\ sealed.key = key /\ sealed.nonce = nonce
      THEN [plaintext |-> sealed.text, err |-> "nil"]
      ELSE [plaintext |-> "", err |-> "cipher: message authentication failed"]

\* base64.StdEncoding.EncodeToString and DecodeString
EncodeToString(buf) == [base64 |-> TRUE, buf |-> buf]
DecodeString(text) ==
    IF text.base64 THEN [buf |-> text.buf, err |-> "nil"]
                   ELSE [buf |-> text.buf, err |-> "illegal base64 data"]

\* a buffer shorter than the nonce
ShortBuf == [short |-> TRUE, nonce |-> 0, sealed |-> None]

\* aesEncryptor.Encrypt; rand is whether the random source gave the nonce
aesEncryptor_Encrypt(text, key, nonce, rand) ==
    IF ~rand THEN [out |-> EncodeToString(ShortBuf), err |-> "unexpected EOF"]
    ELSE [out |-> EncodeToString([short |-> FALSE, nonce |-> nonce,
                                  sealed |-> Seal(validKey(key), nonce, text)]),
          err |-> "nil"]

\* aesEncryptor.Decrypt: the error of gcm.Open is dropped
aesEncryptor_Decrypt(text, key) ==
    LET dec == DecodeString(text)
    IN  CASE dec.err # "nil" -> [out |-> "", err |-> dec.err]
          [] dec.err = "nil" /\ dec.buf.short ->
                [out |-> "", err |-> "invalid nonce size"]
          [] OTHER ->
                [out |-> Open(validKey(key), dec.buf.nonce, dec.buf.sealed).plaintext,
                 err |-> "nil"]

\* a caller encrypts
Encrypt(text, key, nonce, rand) ==
    LET res == aesEncryptor_Encrypt(text, key, nonce, rand)
    IN  /\ e_last' = [op |-> "Encrypt", key |-> key, kind |-> "-",
                      out |-> IF res.err = "nil" THEN "sealed" ELSE "", err |-> res.err]
        /\ e_made' = IF res.err = "nil" THEN [text |-> text, key |-> key, out |-> res.out]
                                        ELSE e_made
        /\ UNCHANGED <<now, c_vars, s_vars, o_vars, w_vars, st_pc, st_raw, st_cfg,
                       st_err, st_built, st_handle, st_init, st_served, ca_pc, ca_raw,
                       ca_cfg, ca_err, ca_handle, p_vars>>

\* what a caller hands to Decrypt: what Encrypt returned, the same with a
\* byte of the sealed text changed, a text that is no base64, a text too
\* short for a nonce
Handed(kind) ==
    CASE kind = "made" -> e_made.out
      [] kind = "modified" ->
            [e_made.out EXCEPT !.buf.sealed.intact = FALSE]
      [] kind = "no base64" -> [base64 |-> FALSE, buf |-> ShortBuf]
      [] OTHER -> EncodeToString(ShortBuf)

HandedKinds == {"made", "modified", "no base64", "short"}

\* a caller decrypts
Decrypt(kind, key) ==
    /\ e_made # None
    /\ LET res == aesEncryptor_Decrypt(Handed(kind), key)
       IN  e_last' = [op |-> "Decrypt", key |-> key, kind |-> kind,
                      out |-> res.out, err |-> res.err]
    /\ UNCHANGED <<e_made, now, c_vars, s_vars, o_vars, w_vars, st_pc, st_raw, st_cfg,
                   st_err, st_built, st_handle, st_init, st_served, ca_pc, ca_raw,
                   ca_cfg, ca_err, ca_handle, p_vars>>

CryptoNext ==
    \/ \E text \in PlainTexts, key \in CryptoKeys, nonce \in Nonces, rand \in BOOLEAN :
          Encrypt(text, key, nonce, rand)
    \/ \E kind \in HandedKinds, key \in CryptoKeys : Decrypt(kind, key)

CryptoInit ==
    /\ e_made = None
    /\ e_last = [op |-> "-", key |-> <<>>, kind |-> "-", out |-> "", err |-> "nil"]

-----------------------------------------------------------------------------
(* Function composition (functional: Pipe[T], with T = int) *)

\* handlers one pipe receives at most
MaxChain == 3

\* the zero value of T
ZeroValue == 0

\* the handlers the callers add: action[T] values
Handlers == {"inc", "dbl", "checked", "broken"}

\* what a handler returns for an input: a result and an error
handler(fn, input) ==
    CASE fn = "inc" -> [res |-> input + 1, err |-> "nil"]
      [] fn = "dbl" -> [res |-> 2 * input, err |-> "nil"]
      [] fn = "checked" -> IF input > 1 THEN [res |-> input, err |-> "nil"]
                                        ELSE [res |-> 0 - 1, err |-> "too small"]
      [] OTHER -> [res |-> input, err |-> "broken"]

\* a loop that goes on after an error
Pipe_breaks_never(err) == FALSE

\* if err != nil { break }
Pipe_breaks(err) == err # "nil"

RECURSIVE Pipe_range(_, _, _, _, _)
\* for _, fn := range p.chain { res, err = fn(res); ... }, from handler i on
Pipe_range(chain, i, res, err, calls) ==
    IF i > Len(chain)
      THEN [res |-> res, err |-> err, calls |-> calls]
      ELSE LET r == handler(chain[i], res)
               seen == Append(calls, [fn |-> chain[i], input |-> res])
           IN  IF Pipe_breaks(r.err)
                 THEN [res |-> r.res, err |-> r.err, calls |-> seen]
                 ELSE Pipe_range(chain, i + 1, r.res, r.err, seen)

\* Pipe.Next: append the handler
Pipe_Next(f) ==
    /\ Len(p_chain) < MaxChain
    /\ p_chain' = Append(p_chain, f)
    /\ p_last' = [op |-> "Next", res |-> ZeroValue, err |-> "nil", calls |-> <<>>]
    /\ UNCHANGED <<e_made, e_last, now, c_vars, s_vars, o_vars, w_vars, st_pc, st_raw,
                   st_cfg, st_err, st_built, st_handle, st_init, st_served, ca_pc,
                   ca_raw, ca_cfg, ca_err, ca_handle>>

\* Pipe.Do: var res T; var err error; the loop; return res, err
Pipe_Do ==
    /\ LET r == Pipe_range(p_chain, 1, ZeroValue, "nil", <<>>)
       IN  p_last' = [op |-> "Do", res |-> r.res, err |-> r.err, calls |-> r.calls]
    /\ UNCHANGED <<p_chain, e_made, e_last, now, c_vars, s_vars, o_vars, w_vars, st_pc,
                   st_raw, st_cfg, st_err, st_built, st_handle, st_init, st_served,
                   ca_pc, ca_raw, ca_cfg, ca_err, ca_handle>>

PipeNext ==
    \/ \E f \in Handlers : Pipe_Next(f)
    \/ Pipe_Do

\* NewPipe: no handler
PipeInit ==
    /\ p_chain = <<>>
    /\ p_last = [op |-> "-", res |-> ZeroValue, err |-> "nil", calls |-> <<>>]

\* the helpers at rest, for the specifications of the other parts
HelpersIdle == CryptoInit /\ PipeInit

-----------------------------------------------------------------------------
(* Time *)

\* time passes; records of the memory store that expired are dropped (they
\* are served by no operation any more)
Tick ==
    /\ now < MaxTime
    /\ now' = now + 1
    /\ c_justPut' = "-"
    /\ c_over' = FALSE
    /\ m_store' = [sl \in Slots |->
          IF m_store[sl] # None /\ m_store[sl].expiresAt # 0
                                /\ m_store[sl].expiresAt <= now + 1
            THEN None ELSE m_store[sl]]
    /\ s_written' = [c \in Coords |->
          LET sl == <<prefix(c[1], c[2]), c[3]>>
          IN  IF m_store[sl] # None /\ m_store[sl].expiresAt # 0
                                    /\ m_store[sl].expiresAt <= now + 1
                THEN "-" ELSE s_written[c]]
    /\ UNCHANGED <<c_name, c_store, c_zeroTTL, c_last, c_lastPut, c_deleted,
                   s_kind, g_coll, g_cursor, g_options, g_tx, s_last, b_vars>>

-----------------------------------------------------------------------------
(* Specifications *)

StorageIdle ==
    /\ s_kind = "empty"
    /\ m_store = [sl \in Slots |-> None]
    /\ g_coll = [t \in Tables |-> <<>>]
    /\ g_cursor = "none"
    /\ g_options = ZeroStoreOptions
    /\ g_tx = None
    /\ s_last = Returned("-", None, "none", "nil", FALSE, <<>>, 0)
    /\ s_written = [c \in Coords |-> "-"]

StorageInit ==
    /\ s_kind \in {"memory", "mongo", "empty"}
    /\ m_store = [sl \in Slots |-> None]
    /\ g_coll = [t \in Tables |-> <<>>]
    /\ g_cursor = "none"
    /\ g_options = ZeroStoreOptions
    /\ g_tx = None
    /\ s_last = Returned("-", None, "none", "nil", FALSE, <<>>, 0)
    /\ s_written = [c \in Coords |-> "-"]

CacheNext ==
    \/ \E k \in Keys, v \in Values, d \in TTLs : CustomCache_Put(k, v, d, "none")
    \/ \E k \in Keys : CustomCache_Get(k, "none")
    \/ \E k \in Keys : CustomCache_Delete(k, "none")
    \/ Tick

\* of the three variants only the in-memory one reads the clock
StorageNext ==
    \/ MemoryNext
    \/ MongoNext
    \/ EmptyNext
    \/ (s_kind = "memory" /\ Tick)

\* the cache facade, either variant, with a backend that answers
InitCache == now = 0 /\ CacheInit /\ StorageIdle /\ StartupInit /\ OptionsIdle /\ WritersIdle /\ HelpersIdle

SpecCache == InitCache /\ [][CacheNext]_vars

\* the storage handle, any variant
InitStorage == now = 0 /\ CacheIdle /\ StorageInit /\ StartupInit /\ OptionsIdle /\ WritersIdle /\ HelpersIdle

SpecStorage == InitStorage /\ [][StorageNext]_vars

\* startup: the configurations are built and validated, then the selectors run
InitStartup == now = 0 /\ CacheIdle /\ StorageIdle /\ StartupInit /\ OptionsIdle /\ WritersIdle /\ HelpersIdle

SpecStartup == InitStartup /\ [][StartupNext]_vars

\* the calls of the specification with faults: one key, one record
FaultCacheKeys == {"k1"}
FaultCacheValues == {GoString}
FaultCacheTTLs == {1}
FaultPayloads == {p \in Payloads : p.key = "a" /\ p.value = "x"}
FaultListOps == {o \in ListOps : o.Limit = 0 /\ o.Offset = 0}
FaultMemReadOps == {o \in MemReadOps : o.Key = "a"}
FaultMongoReadOps == {o \in MongoReadOps : o.Key = "key" /\ o.Value = "a"}
FaultMemWriteOps == {o \in MemWriteOps : o.TTL = 0}
FaultMongoWriteOps == {o \in MongoWriteOps : o.Value = "a"}
FaultMemDeleteOps == {o \in MemDeleteOps : o.Key = "a"}
FaultMongoDeleteOps == {o \in MongoDeleteOps : o.Key = "key" /\ o.Value = "a"}

FaultsCacheNext ==
    \/ \E k \in FaultCacheKeys, v \in FaultCacheValues, d \in FaultCacheTTLs,
          fault \in CacheFaults : CustomCache_Put(k, v, d, fault)
    \/ \E k \in FaultCacheKeys, fault \in CacheFaults : CustomCache_Get(k, fault)
    \/ \E k \in FaultCacheKeys, fault \in CacheFaults : CustomCache_Delete(k, fault)

FaultsMemoryNext ==
    \/ \E ops \in FaultListOps, fault \in CtxFaults : memoryStore_List(ops, fault)
    \/ \E ops \in FaultMemReadOps, fault \in CtxFaults : memoryStore_Read(ops, fault)
    \/ \E payload \in FaultPayloads, ops \in FaultMemWriteOps, fault \in CtxFaults :
          memoryStore_Write(payload, ops, fault)
    \/ \E payload \in FaultPayloads, ops \in FaultMemWriteOps, fault \in CtxFaults :
          memoryStore_Update(payload, ops, fault)
    \/ \E ops \in FaultMemDeleteOps, fault \in CtxFaults : memoryStore_Delete(ops, fault)

FaultsMongoNext ==
    \/ \E ops \in FaultListOps :
          \E fault \in ListFaultsOf(ops) \cup {"cancelled"} : mongoStore_List(ops, fault)
    \/ \E ops \in FaultMongoReadOps, fault \in ReadFaults \cup {"cancelled"} :
          mongoStore_Read(ops, fault)
    \/ \E payload \in FaultPayloads, ops \in MongoInsertOps,
          fault \in TxFaults \cup {"cancelled"} : mongoStore_Write(payload, ops, fault)
    \/ \E payload \in FaultPayloads, ops \in FaultMongoWriteOps,
          fault \in TxFaults \cup {"cancelled"} : mongoStore_Update(payload, ops, fault)
    \/ \E ops \in FaultMongoDeleteOps, fault \in TxFaults \cup {"cancelled"} :
          mongoStore_Delete(ops, fault)

FaultsEmptyNext ==
    \/ \E ops \in FaultListOps, fault \in CtxFaults : emptyStore_List(ops, fault)
    \/ \E ops \in FaultMemReadOps, fault \in CtxFaults : emptyStore_Read(ops, fault)
    \/ \E payload \in FaultPayloads, ops \in FaultMemWriteOps, fault \in CtxFaults :
          emptyStore_Write(payload, ops, fault)
    \/ \E payload \in FaultPayloads, ops \in FaultMemWriteOps, fault \in CtxFaults :
          emptyStore_Update(payload, ops, fault)
    \/ \E ops \in FaultMemDeleteOps, fault \in CtxFaults : emptyStore_Delete(ops, fault)

FaultsNext ==
    FaultsCacheNext \/ FaultsMemoryNext \/ FaultsMongoNext \/ FaultsEmptyNext

\* the cache facade and the storage handle with driver faults and cancelled
\* contexts: either the cache of any variant beside the no-op store, or the
\* store of any variant beside the local cache
InitFaults ==
    /\ now = 0
    /\ StartupInit
    /\ OptionsIdle
    /\ WritersIdle
    /\ HelpersIdle
    /\ \/ CacheInit /\ StorageIdle
       \/ CacheIdle /\ StorageInit

SpecFaults == InitFaults /\ [][FaultsNext]_vars

\* the calls of the specification with two databases: the options of the
\* calls above, addressed to either database
In(database, opts) == {[o EXCEPT !.Database = database] : o \in opts}
EitherDatabase(opts) == UNION {In(d, opts) : d \in AllDatabases}
DatabasePayloads == {p \in Payloads : p.key = "a"}

DatabasesMemoryNext ==
    \/ \E ops \in EitherDatabase(FaultListOps) : memoryStore_List(ops, "none")
    \/ \E ops \in EitherDatabase(FaultMemReadOps) : memoryStore_Read(ops, "none")
    \/ \E payload \in DatabasePayloads, ops \in EitherDatabase(FaultMemWriteOps) :
          memoryStore_Write(payload, ops, "none")
    \/ \E payload \in DatabasePayloads, ops \in EitherDatabase(FaultMemWriteOps) :
          memoryStore_Update(payload, ops, "none")
    \/ \E ops \in EitherDatabase(FaultMemDeleteOps) : memoryStore_Delete(ops, "none")

DatabasesMongoNext ==
    \/ \E ops \in EitherDatabase(FaultListOps) : mongoStore_List(ops, "none")
    \/ \E ops \in EitherDatabase(FaultMongoReadOps) : mongoStore_Read(ops, "none")
    \/ \E payload \in DatabasePayloads, ops \in EitherDatabase(MongoInsertOps) :
          mongoStore_Write(payload, ops, "none")
    \/ \E payload \in DatabasePayloads, ops \in EitherDatabase(FaultMongoWriteOps) :
          mongoStore_Update(payload, ops, "none")
    \/ \E ops \in EitherDatabase(FaultMongoDeleteOps) : mongoStore_Delete(ops, "none")

DatabasesEmptyNext ==
    \/ \E ops \in EitherDatabase(FaultListOps) : emptyStore_List(ops, "none")
    \/ \E ops \in EitherDatabase(FaultMemReadOps) : emptyStore_Read(ops, "none")
    \/ \E payload \in DatabasePayloads, ops \in EitherDatabase(FaultMemWriteOps) :
          emptyStore_Write(payload, ops, "none")
    \/ \E payload \in DatabasePayloads, ops \in EitherDatabase(FaultMemWriteOps) :
          emptyStore_Update(payload, ops, "none")
    \/ \E ops \in EitherDatabase(FaultMemDeleteOps) : emptyStore_Delete(ops, "none")

DatabasesNext == DatabasesMemoryNext \/ DatabasesMongoNext \/ DatabasesEmptyNext

\* the storage handle, any variant, called for two databases
InitDatabases == now = 0 /\ CacheIdle /\ StorageInit /\ StartupInit /\ OptionsIdle /\ WritersIdle /\ HelpersIdle

SpecDatabases == InitDatabases /\ [][DatabasesNext]_vars

\* the storage handle, any variant, listed with filters
FilterPayloads == {p \in Payloads : p.value = "x"}

FiltersNext ==
    \/ \E ops \in FilterListOps : memoryStore_List(ops, "none")
    \/ \E payload \in FilterPayloads, ops \in FaultMemWriteOps :
          memoryStore_Write(payload, ops, "none")
    \/ \E ops \in MemDeleteOps : memoryStore_Delete(ops, "none")
    \/ \E ops \in FilterListOps : mongoStore_List(ops, "none")
    \/ \E payload \in FilterPayloads, ops \in MongoInsertOps :
          mongoStore_Write(payload, ops, "none")
    \/ \E ops \in MongoDeleteOps : mongoStore_Delete(ops, "none")
    \/ \E ops \in FilterListOps : emptyStore_List(ops, "none")

InitFilters == now = 0 /\ CacheIdle /\ StorageInit /\ StartupInit /\ OptionsIdle /\ WritersIdle /\ HelpersIdle

SpecFilters == InitFilters /\ [][FiltersNext]_vars

\* the storage handle, any variant, written to with WriteExpiry and WriteTTL
\* while time passes: an absolute expiry beyond the clock's end, a ttl of
\* one clock unit
ExpiryWriteOps ==
    [Database : Databases, Table : Tables, Key : {""}, Value : {""},
     Expiry : {0, MaxTime + 2}, TTL : WriteTTLs]
ExpiryPayloads == {p \in Payloads : p.key = "a"}

ExpiryNext ==
    \/ \E payload \in ExpiryPayloads, ops \in ExpiryWriteOps :
          memoryStore_Write(payload, ops, "none")
    \/ \E ops \in FaultMemReadOps : memoryStore_Read(ops, "none")
    \/ \E payload \in ExpiryPayloads, ops \in ExpiryWriteOps :
          mongoStore_Write(payload, ops, "none")
    \/ \E ops \in FaultMongoReadOps : mongoStore_Read(ops, "none")
    \/ \E payload \in ExpiryPayloads, ops \in ExpiryWriteOps :
          emptyStore_Write(payload, ops, "none")
    \/ \E ops \in FaultMemReadOps : emptyStore_Read(ops, "none")
    \/ Tick

InitExpiry == now = 0 /\ CacheIdle /\ StorageInit /\ StartupInit /\ OptionsIdle /\ WritersIdle /\ HelpersIdle

SpecExpiry == InitExpiry /\ [][ExpiryNext]_vars

\* two callers of one handle: the in-memory store, or the cache of either
\* variant
InitWriters ==
    /\ now = 0
    /\ StartupInit
    /\ OptionsIdle
    /\ HelpersIdle
    /\ WritersInit
    /\ \/ w_target = "Write" /\ CacheIdle /\ StorageInit /\ s_kind = "memory"
       \/ w_target = "Put" /\ CacheInit /\ StorageIdle

SpecWriters == InitWriters /\ [][WritersNext]_vars

\* the encryptor
InitCrypto ==
    now = 0 /\ CacheIdle /\ StorageIdle /\ StartupInit /\ OptionsIdle /\ WritersIdle
        /\ CryptoInit /\ PipeInit

SpecCrypto == InitCrypto /\ [][CryptoNext]_vars

\* a pipe from NewPipe on
InitPipe ==
    now = 0 /\ CacheIdle /\ StorageIdle /\ StartupInit /\ OptionsIdle /\ WritersIdle
        /\ HelpersIdle

SpecPipe == InitPipe /\ [][PipeNext]_vars

\* a store of the MongoDB or the no-op variant as its constructor leaves it,
\* and the Inits its callers run
InitStoreInit ==
    /\ now = 0
    /\ CacheIdle
    /\ StorageInit
    /\ s_kind \in {"mongo", "empty"}
    /\ StartupInit
    /\ OptionsIdle
    /\ WritersIdle
    /\ HelpersIdle

SpecStoreInit == InitStoreInit /\ [][StoreInitNext]_vars

\* the options of one call, built step by step
InitBuilders == now = 0 /\ CacheIdle /\ StorageIdle /\ StartupInit /\ OptionsInit /\ WritersIdle /\ HelpersIdle

SpecBuilders == InitBuilders /\ [][OptionsNext]_vars

-----------------------------------------------------------------------------
(* Properties of the cache facade, under SpecCache *)

\* C1: for both cache variants, a Get(k) that directly follows Put(k, v, ttl)
\* with ttl > 0 returns a nil error and a value equal to v.
C1_PutThenGetReturnsValue ==
    (/\ c_last.op = "Get"
     /\ c_last.afterPut
     /\ c_lastPut[c_last.key].ttl > 0)
        => (c_last.err = "nil" /\ c_last.val = c_lastPut[c_last.key].val)

\* C2: for both cache variants, a Get(k) that follows Delete(k) with no
\* Put(k, ...) in between is a miss: a non-nil error and no value.
C2_DeleteThenGetMisses ==
    (c_last.op = "Get" /\ c_last.key \in c_deleted)
        => (c_last.err # "nil" /\ c_last.val = GoNil)

\* C2 happens: a key was put, then deleted while still served, then read
C2_Witness ==
    /\ c_last.op = "Get"
    /\ c_last.key \in c_deleted
    /\ c_lastPut[c_last.key] # None
    /\ ~c_last.elapsed
    /\ c_last.err # "nil"

\* C3: on the bounded local cache, a Get(k) made once the ttl of the latest
\* Put(k, v, ttl) has passed is a miss.
C3_ExpiredEntryMisses ==
    (c_name = "Freecache" /\ c_last.op = "Get" /\ c_last.elapsed)
        => (c_last.err # "nil" /\ c_last.val = GoNil)

\* the clock time from which the entry of k is no longer served (0: never)
EntryExpiry(k) ==
    CASE c_store[k].expireAt = 0 -> 0
      [] c_store[k].expireAt # 0 /\ c_name = "Freecache" ->
            c_store[k].expireAt * UnitsPerSecond
      [] OTHER -> c_store[k].expireAt

\* C14: for both cache variants, a Put(k, v2, ttl2) on a key that holds an
\* entry replaces it: the entry expires ttl2 after this Put, and the Get
\* that follows returns v2 with a nil error.
C14_PutReplacesEntryAndTTL ==
    /\ (c_over /\ c_justPut \in Keys /\ c_lastPut[c_justPut].ttl > 0)
          => /\ c_store[c_justPut] # None
             /\ EntryExpiry(c_justPut)
                  = c_lastPut[c_justPut].at + c_lastPut[c_justPut].ttl
    /\ (c_last.op = "Get" /\ c_last.over /\ c_lastPut[c_last.key].ttl > 0)
          => (c_last.err = "nil" /\ c_last.val = c_lastPut[c_last.key].val)

\* C15: a Get on a key that was never put, was deleted or has expired
\* returns a non-nil error and a nil value; a Get that returns a nil error
\* returns a non-nil value.
C15_ErrorTellsHitFromMiss ==
    /\ (/\ c_last.op = "Get"
        /\ \/ c_lastPut[c_last.key] = None
           \/ c_last.key \in c_deleted
           \/ c_last.elapsed)
          => (c_last.err # "nil" /\ c_last.val = GoNil)
    /\ (c_last.op = "Get" /\ c_last.err = "nil") => c_last.val # GoNil

-----------------------------------------------------------------------------
(* Properties of the storage handle, under SpecStorage *)

\* the coordinate a Read addresses: the in-memory variant reads by record
\* key, the document-oriented one by the filter {Key: Value}
ReadCoord ==
    IF s_kind = "mongo"
      THEN Coord(s_last.ops.Database, s_last.ops.Table, s_last.ops.Value)
      ELSE Coord(s_last.ops.Database, s_last.ops.Table, s_last.ops.Key)

\* a Read that the backend answered, with a target, for a record whose
\* latest Write returned nil
ReadOfWritten ==
    /\ s_last.op = "Read"
    /\ s_last.ops.Result = "ptr"
    /\ s_last.fault = "none"
    /\ s_kind = "mongo" => s_last.ops.Key = "key"
    /\ ReadCoord \in Coords
    /\ s_written[ReadCoord] # "-"

ReadGavePayload ==
    /\ s_last.err = "nil"
    /\ s_last.touched
    /\ Len(s_last.out) = 1
    /\ s_last.out[1].key = ReadCoord[3]
    /\ s_last.out[1].value = s_written[ReadCoord]

\* C4 as stated: for every variant (in-memory, document-oriented, no-op), a
\* Read with the matching filter and a valid target after a Write of a
\* record returns the payload written.
C4_RoundTripEveryVariant == ReadOfWritten => ReadGavePayload

\* C4 as amended: the in-memory variant returns the payload while the record
\* has not expired; the document-oriented variant returns it when one
\* document matches the filter; the no-op variant returns nil and leaves the
\* target untouched.
C4_RoundTrip ==
    ReadOfWritten =>
        CASE s_kind = "memory" -> ReadGavePayload
          [] s_kind = "mongo" ->
                Cardinality(Matches(g_coll[s_last.ops.Table], s_last.ops)) = 1
                    => ReadGavePayload
          [] OTHER -> s_last.err = "nil" /\ ~s_last.touched

\* C4 happens: a written record was read back from a store that keeps it
C4_Witness ==
    /\ ReadOfWritten
    /\ s_kind \in {"memory", "mongo"}
    /\ s_last.touched
    /\ s_last.out[1].value = "y"

NoTarget ==
    /\ s_last.op \in {"Read", "List"}
    /\ s_last.ops.Result = "nil"

\* C5 as stated: for the variants the selector gives (document-oriented,
\* no-op), a Read or List without a result target returns
\* _errInvalidResultOption, never nil.
C5_NoTargetIsAnErrorEveryVariant ==
    (NoTarget /\ s_kind \in {"mongo", "empty"})
        => s_last.err = "_errInvalidResultOption"

\* C5 as amended: on the document-oriented variant a Read without a result
\* target returns _errInvalidResultOption, and so does a List unless its
\* find failed, which returns the find's error; never nil.  The no-op
\* variant returns nil.
C5_NoTargetIsAnError ==
    NoTarget =>
        CASE s_kind = "mongo" ->
                /\ s_last.err # "nil"
                /\ (s_last.op = "Read" \/ s_last.fault # "find")
                      => s_last.err = "_errInvalidResultOption"
          [] s_kind = "empty" -> s_last.err = "nil"
          [] OTHER -> TRUE

\* C5 happens: the document-oriented variant refused a Read without a
\* target although a document matched the filter
C5_Witness ==
    /\ NoTarget
    /\ s_kind = "mongo"
    /\ s_last.op = "Read"
    /\ Matches(g_coll[s_last.ops.Table], s_last.ops) # {}
    /\ s_last.err = "_errInvalidResultOption"

\* C6: on the document-oriented variant a Write that returns an error leaves
\* the number of documents of the table as it was before the call.
C6_FailedWriteLeavesCount ==
    (s_kind = "mongo" /\ s_last.op = "Write" /\ s_last.err # "nil")
        => Len(g_coll[s_last.ops.Table]) = s_last.before

\* a List that returned nil with a target on a table of N >= m + n records
ListInRange ==
    /\ s_last.op = "List"
    /\ s_kind \in {"memory", "mongo"}
    /\ s_last.ops.Result = "ptr"
    /\ s_last.fault = "none"
    /\ s_last.before >= s_last.ops.Offset + s_last.ops.Limit

\* the List of the step repeats the List before it
ListRepeated ==
    /\ s_last.op = "List"
    /\ s_last'.op = "List"
    /\ s_last'.ops = s_last.ops
    /\ s_last.ops.Result = "ptr"
    /\ s_last.fault = "none"
    /\ s_last'.fault = "none"
    /\ s_last.before >= s_last.ops.Offset + s_last.ops.Limit

-----------------------------------------------------------------------------
(* Properties of the startup, under SpecStartup *)

\* C8: a storage configuration of type 1 whose URL is empty after trimming
\* fails Validate with Parameter "URL", and NewStorage has then constructed
\* and initialised no backend.
C8_BlankURLFailsBeforeNewStorage ==
    (/\ st_raw # None
     /\ st_raw.Type = 1
     /\ TrimSpace(st_raw.URL) = <<>>)
        => /\ st_err.Parameter = "URL"
           /\ st_pc = "configured"
           /\ st_built = "none"
           /\ st_handle = None

\* C8 happens: type 1 with a URL of whitespace was validated
C8_Witness ==
    /\ st_raw # None
    /\ st_raw.Type = 1
    /\ st_raw.URL = <<" ">>
    /\ st_err.Parameter = "URL"

\* C9: a cache configuration of type 2 whose address is empty or blank fails
\* Validate with Parameter "Address", and NewCache builds no remote client
\* for it.
C9_BlankAddressFailsValidation ==
    (/\ ca_raw # None
     /\ ca_raw.Type = 2
     /\ TrimSpace(ca_raw.Address) = <<>>)
        => /\ ca_err.Parameter = "Address"
           /\ ca_handle = None

\* C10: NewStorage constructs and returns the document-oriented store
\* exactly when the type is 1 and the no-op store for every other integer;
\* NewCache returns the distributed cache exactly when the type is 2 and the
\* bounded local cache named "Freecache" for every other integer.
C10_SelectorIsTotal ==
    /\ st_built # "none" =>
          /\ st_built = "mongo" <=> st_cfg.Type = 1
          /\ st_built = "empty" <=> st_cfg.Type # 1
    /\ st_pc = "running" => (st_handle # None /\ st_handle.kind = st_built)
    /\ (st_built = "empty") => st_pc = "running"
    /\ ca_pc = "running" =>
          /\ ca_handle # None
          /\ (ca_handle.name = "Redis" /\ ca_handle.store = "redis")
                <=> ca_cfg.Type = 2
          /\ ca_cfg.Type # 2 =>
                (ca_handle.name = "Freecache" /\ ca_handle.store = "memory")

\* C10 happens: both selectors ran on discriminants outside their cases
C10_Witness ==
    /\ st_pc = "running"
    /\ st_cfg.Type < 0
    /\ st_handle.kind = "empty"
    /\ ca_pc = "running"
    /\ ca_cfg.Type = 0
    /\ ca_handle.name = "Freecache"

\* C11: a storage configuration of a type other than 1 with an empty URL
\* passes Validate, so that startup goes on to the no-op handle.
C11_EmptyURLAcceptedForOtherTypes ==
    (/\ st_raw # None
     /\ st_raw.Type # 1
     /\ TrimSpace(st_raw.URL) = <<>>)
        => st_err = NoError

\* C12: NewStorage returns a handle only after the Init of the backend it
\* constructed has succeeded; when Init fails the process ends, no handle
\* exists, and so no data operation runs on a backend whose Init failed or
\* did not run.
C12_HandleOnlyAfterInit ==
    /\ st_handle # None => (st_init = "ok" /\ st_pc = "running")
    /\ st_init = "failed" => (st_pc = "fatal" /\ st_handle = None)
    /\ st_served => st_init = "ok"
    /\ st_built # "none" => st_init # "none"

\* C12 happens: the Init of the document store failed at startup
C12_Witness ==
    /\ st_init = "failed"
    /\ st_built = "mongo"
    /\ st_pc = "fatal"

-----------------------------------------------------------------------------
(* Properties under driver faults and cancelled contexts, under SpecFaults *)

\* C13: a storage or cache operation called with a context that is already
\* cancelled returns an error: it never reports success.
C13_CancelledCallReturnsError ==
    /\ s_last.fault = "cancelled" => s_last.err # "nil"
    /\ c_last.fault = "cancelled" => c_last.err # "nil"

\* the faults that are a failed call of the driver
DriverFaults == {"find", "decode", "close", "refused", "lost", "commit"}

\* C16: when the driver call of a storage or cache operation fails, the
\* operation returns a non-nil error (a Get no value with it), and a refused
\* insert or delete was not tried again: the table holds what it held.
C16_NoErrorSwallowed ==
    /\ s_last.fault \in DriverFaults => s_last.err # "nil"
    /\ c_last.fault = "failed" => c_last.err # "nil"
    /\ (c_last.fault = "failed" /\ c_last.op = "Get") => c_last.val = GoNil
    /\ (/\ s_kind = "mongo"
        /\ s_last.op \in {"Write", "Delete"}
        /\ s_last.fault = "refused")
          => Len(g_coll[s_last.ops.Table]) = s_last.before

\* C16 happens: the close of the cursor failed after the target was filled
C16_Witness ==
    /\ s_kind = "mongo"
    /\ s_last.op = "List"
    /\ s_last.fault = "close"
    /\ s_last.touched
    /\ Len(s_last.out) > 0
    /\ s_last.err = "close failed"


-----------------------------------------------------------------------------
(* Properties of records in two databases, under SpecDatabases *)

\* what a Read addressed to (database, table, key) finds in this state, as
\* memoryStore_Read and mongoStore_Read look it up
ReadAnswer(database, table, key) ==
    CASE s_kind = "memory" ->
           IF MemLive(prefix(database, table), key)
             THEN <<m_store[<<prefix(database, table), key>>].value>> ELSE <<>>
      [] s_kind = "mongo" ->
           LET hit == Matches(g_coll[table], [Key |-> "key", Value |-> key])
           IN  IF hit = {} THEN <<>> ELSE <<g_coll[table][First(hit)].value>>
      [] OTHER -> <<>>

\* what a List addressed to (database, table) finds in this state
ListAnswer(database, table) ==
    CASE s_kind = "memory" -> MemKeys(prefix(database, table))
      [] s_kind = "mongo" -> {g_coll[table][i] : i \in 1..Len(g_coll[table])}
      [] OTHER -> {}

\* C17: a record is identified by (database, table, key): a Write, Update or
\* Delete addressed to database d1 never changes what a Read or a List
\* addressed to another database d2 returns for the same table and key.
C17_DatabasesAreApart ==
    [][s_last'.op \in {"Write", "Update", "Delete"} =>
         \A d2 \in AllDatabases \ {s_last'.ops.Database} : \A t \in Tables :
             /\ ListAnswer(d2, t)' = ListAnswer(d2, t)
             /\ \A k \in RecordKeys : ReadAnswer(d2, t, k)' = ReadAnswer(d2, t, k)]_vars


-----------------------------------------------------------------------------
(* Properties of the no-op variant, under SpecStorage *)

\* C18: on the no-op variant every operation (Init, List, Read, Write,
\* Update, Delete), for every argument and in every order, returns nil,
\* writes no result and changes no state; Options() returns the zero
\* options and String() returns "empty".
C18_NoOpStoreDoesNothing ==
    s_kind = "empty" =>
        /\ s_last.err = "nil"
        /\ ~s_last.touched
        /\ m_store = [sl \in Slots |-> None]
        /\ g_coll = [t \in Tables |-> <<>>]
        /\ CASE s_last.op = "Options" -> s_last.out = <<ZeroStoreOptions>>
             [] s_last.op = "String" -> s_last.out = <<"empty">>
             [] OTHER -> s_last.out = <<>>

\* String() is called after a Write of a record went through
C18_Witness ==
    /\ s_kind = "empty"
    /\ s_last.op = "String"
    /\ \E c \in Coords : s_written[c] # "-"


-----------------------------------------------------------------------------
(* Properties of option building, under SpecBuilders *)

\* the fields a step is documented to set
FieldsOf(name) ==
    CASE name \in {"ReadFrom", "WriteTo", "DeleteFrom"} -> {"Database", "Table"}
      [] name \in {"ReadKey", "WriteKey", "DeleteKey"} -> {"Key"}
      [] name \in {"ReadValue", "WriteValue", "DeleteValue"} -> {"Value"}
      [] name = "ReadPrefix" -> {"Prefix"}
      [] name = "ReadSuffix" -> {"Suffix"}
      [] name = "ReadLimit" -> {"Limit"}
      [] name = "ReadOffset" -> {"Offset"}
      [] name = "ReadResult" -> {"Result"}
      [] name = "WriteExpiry" -> {"Expiry"}
      [] name = "WriteTTL" -> {"TTL"}

\* the argument a step gives for a field it sets
GivenFor(step, field) == IF field = "Table" THEN step.args[2] ELSE step.args[1]

\* the steps applied so far that set the field
StepsFor(field) == {i \in 1..Len(o_steps) : field \in FieldsOf(o_steps[i].name)}

Latest(S) == CHOOSE i \in S : \A j \in S : j <= i

ZeroOptions ==
    CASE o_kind = "read" -> ZeroReadOptions
      [] o_kind = "write" -> ZeroWriteOptions
      [] OTHER -> ZeroDeleteOptions

\* C19: after any sequence of option steps applied to the zero options,
\* every field holds the argument of the latest step that sets it, and its
\* zero value when no step sets it: steps on different fields commute, the
\* later of two steps on one field wins, and a step changes no other field
\* (ReadFrom, WriteTo and DeleteFrom set both Database and Table).
C19_FieldsHoldTheirLatestStep ==
    o_kind # "-" =>
        \A field \in DOMAIN o_opts :
            o_opts[field] =
                IF StepsFor(field) = {} THEN ZeroOptions[field]
                ELSE GivenFor(o_steps[Latest(StepsFor(field))], field)

\* a From step with two steps on the key between which the argument changed
C19_Witness ==
    /\ o_kind = "read"
    /\ Len(o_steps) = 3
    /\ o_steps[1].name = "ReadKey"
    /\ o_steps[2].name = "ReadFrom"
    /\ o_steps[3].name = "ReadKey"
    /\ o_steps[1].args # o_steps[3].args


-----------------------------------------------------------------------------
(* Properties of the MongoDB variant's transactions, under SpecStorage *)

\* C20: on the MongoDB variant each Write, Update or Delete that returned
\* nil ran a transaction of its own that held exactly one document
\* operation; the transaction is committed only when the operation
\* succeeded, so a call that returned an error left nothing behind; and no
\* transaction is open once the call has returned.
C20_OneOperationPerTransaction ==
    (s_kind = "mongo" /\ s_last.op \in {"Write", "Update", "Delete"}) =>
        /\ s_last.err = "nil" => (g_tx.committed /\ g_tx.inTx = 1)
        /\ s_last.err # "nil" =>
              (~g_tx.committed /\ Len(g_coll[s_last.ops.Table]) = s_last.before)
        /\ ~g_tx.open


-----------------------------------------------------------------------------
(* Properties of the MongoDB variant's Delete, under SpecFaults *)

\* C21: the MongoDB variant's Delete runs under a deadline of its own of
\* 3 seconds: it never blocks longer, and with a cancelled caller context
\* its outcome is that of the same call with a live one: it returns nil,
\* commits, and the first matching document, if there was one, is gone.
C21_DeleteHasItsOwnDeadline ==
    (s_kind = "mongo" /\ s_last.op = "Delete") =>
        /\ g_tx.took <= 3
        /\ s_last.fault = "cancelled" =>
              /\ s_last.err = "nil"
              /\ g_tx.committed
              /\ g_tx.took = 0
              /\ LET n == Len(g_coll[s_last.ops.Table])
                 IN  \/ n = s_last.before - 1
                     \/ n = s_last.before
                        /\ Matches(g_coll[s_last.ops.Table], s_last.ops) = {}

\* a Delete with a cancelled caller context removed the one document
C21_Witness ==
    /\ s_kind = "mongo"
    /\ s_last.op = "Delete"
    /\ s_last.fault = "cancelled"
    /\ s_last.before = 1
    /\ g_coll[s_last.ops.Table] = <<>>


-----------------------------------------------------------------------------
(* Properties of the in-memory variant's Update, under SpecStorage *)

\* the store a Write of the record with these options leaves
AfterWrite(payload, ops) ==
    [m_store EXCEPT ![<<prefix(ops.Database, ops.Table), payload.key>>] =
        [value |-> payload.value, expiresAt |-> MemExpiresAt(ops)]]

\* C22: on the in-memory variant every Update returns what Write returns for
\* the same payload and options and leaves the store as that Write would:
\* the record is replaced whole, and a payload that is not a store record
\* gets the invalid-payload error and leaves the store unchanged.
C22_UpdateIsWrite ==
    [][(s_kind = "memory" /\ s_last'.op = "Update" /\ now' = now) =>
         \E payload \in Payloads :
             \/ /\ ~payload.record
                /\ s_last'.err = "_errInvalidResultOption"
                /\ m_store' = m_store
             \/ /\ payload.record
                /\ s_last'.err = "nil"
                /\ m_store' = AfterWrite(payload, s_last'.ops)]_vars

\* an Update with a ttl met a record that was stored without one
C22_Witness ==
    /\ s_kind = "memory"
    /\ s_last.op = "Update"
    /\ s_last.err = "nil"
    /\ s_last.ops.TTL # 0
    /\ \E sl \in Slots : m_store[sl] # None /\ m_store[sl].expiresAt = 0


-----------------------------------------------------------------------------
(* Properties of List with filters, under SpecFilters *)

-----------------------------------------------------------------------------
(* Properties of written records' expiry, under SpecExpiry *)

\* C24: on every storage variant, when a Write gave both WriteExpiry and
\* WriteTTL the ttl decides: once the ttl (one clock unit) has passed, the
\* record is read no more, although the absolute expiry lies later.
C24_TTLDecidesExpiry ==
    [][(/\ now' = now + 1
        /\ s_last.op = "Write"
        /\ s_last.err = "nil"
        /\ s_last.ops.TTL # 0
        /\ s_last.ops.Expiry # 0)
       => ReadAnswer(s_last.ops.Database, s_last.ops.Table, "a")' = <<>>]_vars


-----------------------------------------------------------------------------
(* Properties of the bounded local cache's expiry, under SpecCache *)

\* C25: on the bounded local cache no entry is stored without an expiry: an
\* entry just put with a positive ttl expires that ttl after the Put, and
\* one put with the duration 0 expires the default 10 seconds after it.
C25_LocalEntriesAllExpire ==
    c_name = "Freecache" =>
        /\ \A k \in Keys : c_store[k] # None => c_store[k].expireAt # 0
        /\ c_justPut \in Keys =>
              /\ c_store[c_justPut] # None
              /\ EntryExpiry(c_justPut) =
                    c_lastPut[c_justPut].at +
                      (IF c_lastPut[c_justPut].ttl > 0 THEN c_lastPut[c_justPut].ttl
                       ELSE 10 * UnitsPerSecond)


-----------------------------------------------------------------------------
(* Properties of concurrent writes, under SpecWriters *)

\* C26: when two callers write different values to one key of one handle at
\* the same time, in every interleaving both calls complete, and a read that
\* follows returns exactly the value the backend applied last.
C26_LastAppliedWriteIsRead ==
    (\A p \in Writers : w_pc[p] = "done") =>
        /\ Len(w_order) = Cardinality(Writers)
        /\ (w_target = "Write" /\ s_last.op = "Read") =>
              /\ s_last.err = "nil"
              /\ s_last.out[1].value = w_arg[w_order[Len(w_order)]]
        /\ (w_target = "Put" /\ c_last.op = "Get") =>
              /\ c_last.err = "nil"
              /\ c_last.val = w_arg[w_order[Len(w_order)]]


-----------------------------------------------------------------------------
(* Properties of the encryptor, under SpecCrypto *)

\* C27: Decrypt returns a nil error only together with the plaintext that
\* was encrypted: Decrypt(Encrypt(t, k), k) = t; a text that was modified,
\* is no base64 or is too short gets an error; and with a key other than
\* k the result is never ("", nil).
C27_DecryptReportsFailure ==
    e_last.op = "Decrypt" =>
        /\ e_last.err = "nil" => (e_last.kind = "made" /\ e_last.out = e_made.text)
        /\ (e_last.kind = "made" /\ e_last.key = e_made.key)
              => (e_last.err = "nil" /\ e_last.out = e_made.text)
        /\ (e_last.kind = "made" /\ e_last.key # e_made.key)
              => ~(e_last.out = "" /\ e_last.err = "nil")
        /\ e_last.kind # "made" => e_last.err # "nil"


-----------------------------------------------------------------------------
(* Properties of the MongoDB variant's cursors, under SpecStorage *)

\* C28: the cursor the MongoDB variant's List opened is closed when List
\* has returned, on every path: success, a missing result target, a
\* decoding failure.
C28_ListClosesItsCursor ==
    (s_kind = "mongo" /\ s_last.op = "List") => g_cursor # "open"


-----------------------------------------------------------------------------
(* Properties of the MongoDB variant's Init, under SpecStoreInit *)

\* C29: the MongoDB variant's Init returns, with an error where it fails,
\* for every option list: it does not crash where the options name no node.
C29_InitReturnsItsFailure ==
    (s_kind = "mongo" /\ s_last.op = "Init") => s_last.err # "panic"


-----------------------------------------------------------------------------
(* Properties of Pipe, under SpecPipe *)

\* C30: Do invokes the handlers in the order Next added them, the first with
\* the zero value and each later one with the result of the one before; no
\* handler is invoked after one that returned an error; Do returns the result
\* and the error of the last handler it invoked, and the zero value with a
\* nil error where the pipe is empty.
C30_DoRunsTheChainToItsFirstError ==
    p_last.op = "Do" =>
        LET calls == p_last.calls
            n == Len(calls)
            ret(i) == handler(calls[i].fn, calls[i].input)
        IN  /\ n <= Len(p_chain)
            /\ \A i \in 1..n :
                  /\ calls[i].fn = p_chain[i]
                  /\ calls[i].input = IF i = 1 THEN ZeroValue ELSE ret(i - 1).res
                  /\ i < n => ret(i).err = "nil"
            /\ n < Len(p_chain) => (n > 0 /\ ret(n).err # "nil")
            /\ IF n = 0
                  THEN p_chain = <<>> /\ p_last.res = ZeroValue /\ p_last.err = "nil"
                  ELSE p_last.res = ret(n).res /\ p_last.err = ret(n).err

\* Do stopped at the error of the second of three handlers, which the first
\* had handed a result of its own
C30_Witness ==
    /\ p_last.op = "Do"
    /\ Len(p_chain) = MaxChain
    /\ Len(p_last.calls) = 2
    /\ p_last.calls[2].input # ZeroValue
    /\ p_last.err # "nil"


=============================================================================
